---- MODULE Spec2Model ----
(***************************************************************************)
(* BOM Manager (bom_manager.py): the BOMDatabase tables, the operations    *)
(* that write them, the graph accessor get_product_bom, and the two        *)
(* resolvers calculate_bom_cost and get_flattened_bom.                     *)
(*                                                                         *)
(* Numbers.  Quantities and costs are SQLite REAL columns and Python       *)
(* floats, i.e. IEEE-754 binary64.  A non-negative double is modelled by   *)
(* the set of the positions of its 1 bits (3.0 = {1, 0}, 0.5 = {-1},       *)
(* 0.0 = {}); sums, products and quotients are computed exactly on those   *)
(* sets and then rounded to MantissaBits significant bits, ties to even,   *)
(* as the hardware does.  Two doubles are equal iff their sets are equal.  *)
(*                                                                         *)
(* Text.  A TEXT value is the sequence of its character codes, so that     *)
(* ORDER BY (bytewise comparison) and f-string concatenation are computed  *)
(* rather than assumed.                                                    *)
(*                                                                         *)
(* Rows.  A table is the sequence of its rows in rowid order; AUTOINCREMENT*)
(* ids only ever grow, so rowid order is insertion order.  A row keeps the  *)
(* columns the resolvers read or order by; revision, notes, category,     *)
(* unit_of_measure, the dates, minimum_order_qty and lead_time_days are    *)
(* carried through by the program and left out here.                       *)
(*                                                                         *)
(* Threads.  The program runs its handlers one after the other in the      *)
(* thread of the event loop; out is the call that thread has made.  calls  *)
(* holds, per thread, a resolver call made on the same BOMDatabase object  *)
(* from that thread.                                                       *)
(***************************************************************************)
EXTENDS Integers, Sequences, FiniteSets, TLC

VARIABLES products, components, component_sources, bom_entries,
          sub_assemblies, out, calls

vars == <<products, components, component_sources, bom_entries,
          sub_assemblies, out, calls>>

tables == <<products, components, component_sources, bom_entries,
            sub_assemblies>>

-----------------------------------------------------------------------------
(* Bounds of the model.                                                    *)

\* Rows a table may hold before the model stops adding to it.
MaxProducts == 3
MaxComponents == 2
MaxSources == 2
MaxEntries == 2
MaxEdges == 2
\* Nested calls the interpreter allows before it raises RecursionError.
\* (CPython's default is 1000; what matters is that it is finite and larger
\* than the longest chain of distinct products.)
MaxDepth == 4

-----------------------------------------------------------------------------
(* IEEE-754 binary64 arithmetic on non-negative values.                    *)

MantissaBits == 53

Max(S) == CHOOSE i \in S : \A j \in S : j <= i

\* int -> float, for the small naturals the model uses (exact).
RECURSIVE Float(_)
Float(n) == IF n = 0 THEN {}
            ELSE LET rest == {i + 1 : i \in Float(n \div 2)}
                 IN IF n % 2 = 1 THEN rest \cup {0} ELSE rest

\* Exact sum of two bit sets: xor plus the carries shifted left.
RECURSIVE BAdd(_, _)
BAdd(A, B) == IF A \cap B = {} THEN A \cup B
              ELSE BAdd((A \cup B) \ (A \cap B), {i + 1 : i \in A \cap B})

\* Exact difference A - B, for A >= B: xor minus the borrows shifted left.
RECURSIVE BSub(_, _)
BSub(A, B) == IF B \ A = {} THEN A \ B
              ELSE BSub((A \ B) \cup (B \ A), {i + 1 : i \in B \ A})

BShift(A, n) == {i + n : i \in A}

BLeq(A, B) == \/ A = B
              \/ Max((A \ B) \cup (B \ A)) \in B

\* Exact product: the sum of A shifted by every 1 bit of B.
RECURSIVE BMul(_, _)
BMul(A, B) == IF B = {} THEN {}
              ELSE LET b == Max(B) IN BAdd(BShift(A, b), BMul(A, B \ {b}))

\* Round to nearest, ties to even, keeping MantissaBits significant bits.
Round(S) ==
    IF S = {} THEN {}
    ELSE LET cut    == Max(S) - (MantissaBits - 1)
             kept   == {i \in S : i >= cut}
             half   == (cut - 1) \in S
             sticky == \E i \in S : i < cut - 1
         IN IF half /\ (sticky \/ cut \in kept) THEN BAdd(kept, {cut})
            ELSE kept

FAdd(a, b) == Round(BAdd(a, b))
FMul(a, b) == Round(BMul(a, b))

\* Long division: quotient bits from position p down to position last, then a
\* sticky bit below them when a remainder is left.
RECURSIVE DivBits(_, _, _, _)
DivBits(r, b, p, last) ==
    IF r = {} THEN {}
    ELSE IF p < last THEN {last - 1}
    ELSE IF BLeq(BShift(b, p), r)
         THEN {p} \cup DivBits(BSub(r, BShift(b, p)), b, p - 1, last)
         ELSE DivBits(r, b, p - 1, last)

\* a / b for b > 0.
FDiv(a, b) ==
    IF a = {} THEN {}
    ELSE LET top == Max(a) - Max(b)
         IN Round(DivBits(a, b, top, top - (MantissaBits + 1)))

\* x > 0, for a non-negative double.
Positive(x) == x # {}

-----------------------------------------------------------------------------
(* SQL values and text.                                                    *)

\* A nullable column holds <<>> (NULL / None) or <<v>>.
NULL == <<>>
Val(v) == <<v>>
IsNull(x) == x = <<>>
Get(x) == x[1]

\* Bytewise comparison of two TEXT values (SQLite's BINARY collation).
RECURSIVE TextLess(_, _)
TextLess(s, t) ==
    IF t = <<>> THEN FALSE
    ELSE IF s = <<>> THEN TRUE
    ELSE IF Head(s) # Head(t) THEN Head(s) < Head(t)
    ELSE TextLess(Tail(s), Tail(t))

-----------------------------------------------------------------------------
(* Sorting a result set.                                                   *)

\* The row indices in S in the order given by before, a strict total order on
\* S held as the set of its pairs.
RECURSIVE SortBy(_, _)
SortBy(S, before) ==
    IF S = {} THEN <<>>
    ELSE LET first == CHOOSE i \in S : \A j \in S \ {i} : <<i, j>> \in before
         IN <<first>> \o SortBy(S \ {first}, before)

-----------------------------------------------------------------------------
(* get_product_bom: the graph accessor.                                    *)

\* ORDER BY unit_cost ASC LIMIT 1 over the sources of one component.  NULL
\* sorts before every number; rows that tie come out in rowid order.
SourceBefore(i, j) ==
    LET a == component_sources[i].unit_cost
        b == component_sources[j].unit_cost
    IN IF a = b THEN i < j
       ELSE IF IsNull(a) THEN TRUE
       ELSE IF IsNull(b) THEN FALSE
       ELSE BLeq(Get(a), Get(b))

SourcesOf(component_id) ==
    {i \in DOMAIN component_sources :
        component_sources[i].component_id = component_id}

\* One of the five scalar subqueries: the column col of the first source row,
\* or NULL when the component has no source.
BestSource(component_id, col) ==
    LET S == SourcesOf(component_id)
    IN IF S = {} THEN NULL
       ELSE LET first == SortBy(S, {ij \in S \X S : SourceBefore(ij[1], ij[2])})[1]
            IN IF col = "unit_cost" THEN component_sources[first].unit_cost
               ELSE Val(component_sources[first][col])

\* ORDER BY be.reference_designators, c.mfg_part_number; ties in rowid order.
EntryBefore(i, j) ==
    LET ri == bom_entries[i].reference_designators
        rj == bom_entries[j].reference_designators
        mi == components[bom_entries[i].component_id].mfg_part_number
        mj == components[bom_entries[j].component_id].mfg_part_number
    IN IF ri # rj THEN TextLess(ri, rj)
       ELSE IF mi # mj THEN TextLess(mi, mj)
       ELSE i < j

\* The accessor with the filter on do_not_populate applied when include_dnp
\* is set, and left out when it is not.
ComponentRowsDnpWhenUnasked(product_id, include_dnp) ==
    LET S == {i \in DOMAIN bom_entries :
                /\ bom_entries[i].product_id = product_id
                /\ bom_entries[i].component_id \in DOMAIN components
                /\ ~include_dnp \/ ~bom_entries[i].do_not_populate}
        order == SortBy(S, {ij \in S \X S : EntryBefore(ij[1], ij[2])})
    IN [n \in DOMAIN order |->
          LET be == bom_entries[order[n]]
              c  == components[be.component_id]
          IN [component_id            |-> be.component_id,
              mfg_part_number         |-> c.mfg_part_number,
              manufacturer            |-> c.manufacturer,
              description             |-> c.description,
              quantity                |-> be.quantity,
              reference_designators   |-> be.reference_designators,
              do_not_populate         |-> be.do_not_populate,
              distributor             |-> BestSource(be.component_id, "distributor"),
              distributor_part_number |-> BestSource(be.component_id, "distributor_part_number"),
              unit_cost               |-> BestSource(be.component_id, "unit_cost")]]

\* FROM bom_entries be JOIN components c ... WHERE be.product_id = ? {dnp_filter}
ComponentRows(product_id, include_dnp) ==
    LET S == {i \in DOMAIN bom_entries :
                /\ bom_entries[i].product_id = product_id
                /\ bom_entries[i].component_id \in DOMAIN components
                /\ include_dnp \/ ~bom_entries[i].do_not_populate}
        order == SortBy(S, {ij \in S \X S : EntryBefore(ij[1], ij[2])})
    IN [n \in DOMAIN order |->
          LET be == bom_entries[order[n]]
              c  == components[be.component_id]
          IN [component_id            |-> be.component_id,
              mfg_part_number         |-> c.mfg_part_number,
              manufacturer            |-> c.manufacturer,
              description             |-> c.description,
              quantity                |-> be.quantity,
              reference_designators   |-> be.reference_designators,
              do_not_populate         |-> be.do_not_populate,
              distributor             |-> BestSource(be.component_id, "distributor"),
              distributor_part_number |-> BestSource(be.component_id, "distributor_part_number"),
              unit_cost               |-> BestSource(be.component_id, "unit_cost")]]

\* ORDER BY sa.reference_designators, p.part_number; ties in rowid order.
EdgeBefore(i, j) ==
    LET ri == sub_assemblies[i].reference_designators
        rj == sub_assemblies[j].reference_designators
        pi == products[sub_assemblies[i].child_product_id].part_number
        pj == products[sub_assemblies[j].child_product_id].part_number
    IN IF ri # rj THEN TextLess(ri, rj)
       ELSE IF pi # pj THEN TextLess(pi, pj)
       ELSE i < j

\* FROM sub_assemblies sa JOIN products p ... WHERE sa.parent_product_id = ?
SubAssemblyRows(product_id) ==
    LET S == {i \in DOMAIN sub_assemblies :
                /\ sub_assemblies[i].parent_product_id = product_id
                /\ sub_assemblies[i].child_product_id \in DOMAIN products}
        order == SortBy(S, {ij \in S \X S : EdgeBefore(ij[1], ij[2])})
    IN [n \in DOMAIN order |->
          LET sa == sub_assemblies[order[n]]
              p  == products[sa.child_product_id]
          IN [part_number           |-> p.part_number,
              description           |-> p.description,
              quantity              |-> sa.quantity,
              reference_designators |-> sa.reference_designators,
              product_id            |-> sa.child_product_id]]

get_product_bom(product_id, include_dnp) ==
    [components     |-> ComponentRows(product_id, include_dnp),
     sub_assemblies |-> SubAssemblyRows(product_id)]

-----------------------------------------------------------------------------
(* calculate_bom_cost: the cost rollup.                                    *)

RecursionError == "RecursionError"
NoError == "none"

\* f"{comp['mfg_part_number']} ({comp['manufacturer']})"
ComponentLabel(comp) ==
    comp.mfg_part_number \o <<32, 40>> \o comp.manufacturer \o <<41>>

\* f"[SUB-ASSEMBLY] {sub['part_number']} - {sub['description']}"
SubAssemblyLabel(sub) ==
    <<91, 83, 85, 66, 45, 65, 83, 83, 69, 77, 66, 76, 89, 93, 32>>
        \o sub.part_number \o <<32, 45, 32>> \o sub.description

\* if comp['unit_cost']: None and 0.0 are both falsy.
Priced(unit_cost) == ~IsNull(unit_cost) /\ Get(unit_cost) # {}

\* The line total without the multiplier of the call.
CompTotalPerUnit(unit_cost, entry_quantity, quantity) ==
    FMul(unit_cost, entry_quantity)

\* float(comp['unit_cost']) * float(comp['quantity']) * quantity
CompTotal(unit_cost, entry_quantity, quantity) ==
    FMul(FMul(unit_cost, entry_quantity), quantity)

\* sub['quantity'] or 1: an edge quantity of 0 taken for a missing one.
ChildQuantityOrOne(sub_quantity, quantity) ==
    IF sub_quantity = {} THEN quantity ELSE FMul(sub_quantity, quantity)

\* The edge quantity alone handed to the child, the multiplier of the parent
\* dropped.
ChildQuantityEdgeOnly(sub_quantity, quantity) == sub_quantity

\* float(sub['quantity']) * quantity: the multiplier handed to the child.
ChildQuantity(sub_quantity, quantity) == FMul(sub_quantity, quantity)

\* The cost of the branch divided by the edge quantity alone.
RollupUnitCostPerEdge(sub_cost, sub_quantity, quantity) ==
    IF Positive(sub_quantity) THEN FDiv(sub_cost, sub_quantity) ELSE {}

\* The cost of the branch taken for its per-unit cost.
RollupUnitCostUndivided(sub_cost, sub_quantity, quantity) == sub_cost

\* The per-unit cost of a rollup line.
RollupUnitCost(sub_cost, sub_quantity, quantity) ==
    IF Positive(FMul(sub_quantity, quantity))
    THEN FDiv(sub_cost, FMul(sub_quantity, quantity))
    ELSE {}

\* The loop over components with insert(0, ...) for append(...).
RECURSIVE CostComponentsPrepend(_, _, _, _)
CostComponentsPrepend(rows, i, quantity, acc) ==
    IF i > Len(rows) THEN acc
    ELSE LET comp == rows[i]
         IN IF Priced(comp.unit_cost)
            THEN LET comp_total ==
                        CompTotal(Get(comp.unit_cost), comp.quantity, quantity)
                 IN CostComponentsPrepend(rows, i + 1, quantity,
                       [total |-> FAdd(acc.total, comp_total),
                        component_costs |->
                           <<[item      |-> ComponentLabel(comp),
                              quantity  |-> comp.quantity,
                              unit_cost |-> Get(comp.unit_cost),
                              total     |-> comp_total]>>
                           \o acc.component_costs])
            ELSE CostComponentsPrepend(rows, i + 1, quantity, acc)

\* The loop over components without total_cost += total: the lines are
\* appended, the running total stays what it was.
RECURSIVE CostComponentsLinesOnly(_, _, _, _)
CostComponentsLinesOnly(rows, i, quantity, acc) ==
    IF i > Len(rows) THEN acc
    ELSE LET comp == rows[i]
         IN IF Priced(comp.unit_cost)
            THEN LET comp_total ==
                        CompTotal(Get(comp.unit_cost), comp.quantity, quantity)
                 IN CostComponentsLinesOnly(rows, i + 1, quantity,
                       [total |-> acc.total,
                        component_costs |-> Append(acc.component_costs,
                           [item      |-> ComponentLabel(comp),
                            quantity  |-> comp.quantity,
                            unit_cost |-> Get(comp.unit_cost),
                            total     |-> comp_total])])
            ELSE CostComponentsLinesOnly(rows, i + 1, quantity, acc)

\* for comp in components: the running total and the lines after row i.
RECURSIVE CostComponents(_, _, _, _)
CostComponents(rows, i, quantity, acc) ==
    IF i > Len(rows) THEN acc
    ELSE LET comp == rows[i]
         IN IF Priced(comp.unit_cost)
            THEN LET comp_total ==
                        CompTotal(Get(comp.unit_cost), comp.quantity, quantity)
                 IN CostComponents(rows, i + 1, quantity,
                       [total |-> FAdd(acc.total, comp_total),
                        component_costs |-> Append(acc.component_costs,
                           [item      |-> ComponentLabel(comp),
                            quantity  |-> comp.quantity,
                            unit_cost |-> Get(comp.unit_cost),
                            total     |-> comp_total])])
            ELSE CostComponents(rows, i + 1, quantity, acc)

RECURSIVE CostFrame(_, _, _, _)
RECURSIVE CostSubAssemblies(_, _, _, _, _, _)

\* The loop over sub_assemblies with every child asked for its
\* do-not-populate entries too, whatever the caller's flag.
RECURSIVE CostSubAssembliesDnpBelow(_, _, _, _, _, _)
CostSubAssembliesDnpBelow(rows, i, quantity, include_dnp, depth, acc) ==
    IF i > Len(rows) THEN [error |-> NoError, total |-> acc.total,
                           component_costs |-> acc.component_costs]
    ELSE LET sub   == rows[i]
             child == CostFrame(sub.product_id,
                                ChildQuantity(sub.quantity, quantity),
                                TRUE, depth + 1)
         IN IF child.error # NoError THEN child
            ELSE CostSubAssembliesDnpBelow(rows, i + 1, quantity, include_dnp, depth,
                    [total |-> FAdd(acc.total, child.total),
                     component_costs |-> Append(acc.component_costs,
                        [item      |-> SubAssemblyLabel(sub),
                         quantity  |-> sub.quantity,
                         unit_cost |-> RollupUnitCost(child.total, sub.quantity,
                                                      quantity),
                         total     |-> child.total])])

\* for sub in sub_assemblies: one recursive call per row, in order; an
\* exception raised below ends the loop and the call.
CostSubAssemblies(rows, i, quantity, include_dnp, depth, acc) ==
    IF i > Len(rows) THEN [error |-> NoError, total |-> acc.total,
                           component_costs |-> acc.component_costs]
    ELSE LET sub   == rows[i]
             child == CostFrame(sub.product_id,
                                ChildQuantity(sub.quantity, quantity),
                                include_dnp, depth + 1)
         IN IF child.error # NoError THEN child
            ELSE CostSubAssemblies(rows, i + 1, quantity, include_dnp, depth,
                    [total |-> FAdd(acc.total, child.total),
                     component_costs |-> Append(acc.component_costs,
                        [item      |-> SubAssemblyLabel(sub),
                         quantity  |-> sub.quantity,
                         unit_cost |-> RollupUnitCost(child.total, sub.quantity,
                                                      quantity),
                         total     |-> child.total])])

\* An activation that gives up below MaxDepth frames and returns a cost of 0.
CostFrameDepthCut(product_id, quantity, include_dnp, depth) ==
    IF depth > MaxDepth
    THEN [error |-> NoError, total |-> {}, component_costs |-> <<>>]
    ELSE LET bom == get_product_bom(product_id, include_dnp)
         IN CostSubAssemblies(bom.sub_assemblies, 1, quantity, include_dnp, depth,
               CostComponents(bom.components, 1, quantity,
                              [total |-> {}, component_costs |-> <<>>]))

\* One activation of calculate_bom_cost, depth frames deep.
CostFrame(product_id, quantity, include_dnp, depth) ==
    IF depth > MaxDepth
    THEN [error |-> RecursionError, total |-> {}, component_costs |-> <<>>]
    ELSE LET bom == get_product_bom(product_id, include_dnp)
         IN CostSubAssemblies(bom.sub_assemblies, 1, quantity, include_dnp, depth,
               CostComponents(bom.components, 1, quantity,
                              [total |-> {}, component_costs |-> <<>>]))

\* The activations one activation gives rise to, itself included: both
\* resolvers call themselves once for every row of sub_assemblies the accessor
\* returns, whatever its quantity.
RECURSIVE Activations(_, _)
RECURSIVE ActivationsBelow(_, _, _)
ActivationsBelow(rows, i, depth) ==
    IF i > Len(rows) THEN 0
    ELSE Activations(rows[i].product_id, depth + 1)
            + ActivationsBelow(rows, i + 1, depth)

Activations(product_id, depth) ==
    IF depth > MaxDepth THEN 0
    ELSE 1 + ActivationsBelow(SubAssemblyRows(product_id), 1, depth)

\* The call as the caller makes it: quantity is an int.
calculate_bom_cost(product_id, quantity, include_dnp) ==
    CostFrame(product_id, Float(quantity), include_dnp, 1)

-----------------------------------------------------------------------------
(* get_flattened_bom: the flattened bill.                                  *)

\* f"{comp['mfg_part_number']}|{comp['manufacturer']}"
FlattenKey(mfg_part_number, manufacturer) ==
    mfg_part_number \o <<124>> \o manufacturer

\* The dict is the sequence of its (key, value) pairs in insertion order.
KeyIndex(flattened, key) ==
    {n \in DOMAIN flattened : flattened[n].key = key}

\* The loop body with the multiplier left out of a new entry's quantity.
MergeUnscaledInsert(flattened, comp, qty) ==
    LET key == FlattenKey(comp.mfg_part_number, comp.manufacturer)
        at  == KeyIndex(flattened, key)
    IN IF at # {}
       THEN LET n == CHOOSE n \in at : TRUE
            IN [flattened EXCEPT ![n].value.quantity =
                   FAdd(@, FMul(comp.quantity, qty))]
       ELSE Append(flattened,
              [key   |-> key,
               value |-> [mfg_part_number         |-> comp.mfg_part_number,
                          manufacturer            |-> comp.manufacturer,
                          description             |-> comp.description,
                          quantity                |-> comp.quantity,
                          distributor             |-> comp.distributor,
                          distributor_part_number |-> comp.distributor_part_number,
                          unit_cost               |-> comp.unit_cost,
                          do_not_populate         |-> comp.do_not_populate]])

\* The loop body with a later encounter taking over the fields of the entry.
MergeLastWins(flattened, comp, qty) ==
    LET key == FlattenKey(comp.mfg_part_number, comp.manufacturer)
        at  == KeyIndex(flattened, key)
        new == [mfg_part_number         |-> comp.mfg_part_number,
                manufacturer            |-> comp.manufacturer,
                description             |-> comp.description,
                quantity                |-> FMul(comp.quantity, qty),
                distributor             |-> comp.distributor,
                distributor_part_number |-> comp.distributor_part_number,
                unit_cost               |-> comp.unit_cost,
                do_not_populate         |-> comp.do_not_populate]
    IN IF at # {}
       THEN LET n == CHOOSE n \in at : TRUE
            IN [flattened EXCEPT ![n].value =
                   [new EXCEPT !.quantity = FAdd(flattened[n].value.quantity, @)]]
       ELSE Append(flattened, [key |-> key, value |-> new])

\* The body of the loop over components: add to the entry under key, or
\* insert a new one.
Merge(flattened, comp, qty) ==
    LET key == FlattenKey(comp.mfg_part_number, comp.manufacturer)
        at  == KeyIndex(flattened, key)
    IN IF at # {}
       THEN LET n == CHOOSE n \in at : TRUE
            IN [flattened EXCEPT ![n].value.quantity =
                   FAdd(@, FMul(comp.quantity, qty))]
       ELSE Append(flattened,
              [key   |-> key,
               value |-> [mfg_part_number         |-> comp.mfg_part_number,
                          manufacturer            |-> comp.manufacturer,
                          description             |-> comp.description,
                          quantity                |-> FMul(comp.quantity, qty),
                          distributor             |-> comp.distributor,
                          distributor_part_number |-> comp.distributor_part_number,
                          unit_cost               |-> comp.unit_cost,
                          do_not_populate         |-> comp.do_not_populate]])

RECURSIVE FlattenComponents(_, _, _, _)
FlattenComponents(rows, i, qty, flattened) ==
    IF i > Len(rows) THEN flattened
    ELSE FlattenComponents(rows, i + 1, qty, Merge(flattened, rows[i], qty))

RECURSIVE flatten_recursive(_, _, _, _, _)
RECURSIVE FlattenSubAssemblies(_, _, _, _, _, _)

FlattenSubAssemblies(rows, i, qty, include_dnp, depth, flattened) ==
    IF i > Len(rows) THEN [error |-> NoError, flattened |-> flattened]
    ELSE LET child == flatten_recursive(rows[i].product_id,
                                        ChildQuantity(rows[i].quantity, qty),
                                        include_dnp, depth + 1, flattened)
         IN IF child.error # NoError THEN child
            ELSE FlattenSubAssemblies(rows, i + 1, qty, include_dnp, depth,
                                      child.flattened)

\* One activation of flatten_recursive, depth frames deep, on the dict so far.
flatten_recursive(prod_id, qty, include_dnp, depth, flattened) ==
    IF depth > MaxDepth
    THEN [error |-> RecursionError, flattened |-> <<>>]
    ELSE LET bom == get_product_bom(prod_id, include_dnp)
         IN FlattenSubAssemblies(bom.sub_assemblies, 1, qty, include_dnp, depth,
               FlattenComponents(bom.components, 1, qty, flattened))

\* list(flattened.values()), from a dict that starts empty.
get_flattened_bom(product_id, quantity, include_dnp) ==
    LET r == flatten_recursive(product_id, Float(quantity), include_dnp, 1, <<>>)
    IN [error |-> r.error,
        flattened |-> [n \in DOMAIN r.flattened |-> r.flattened[n].value]]

-----------------------------------------------------------------------------
(* The operations of BOMDatabase.  out holds what the last call returned.  *)

Returned(op, result) ==
    [op |-> op, product_id |-> 0, quantity |-> 0, include_dnp |-> FALSE,
     result |-> result]

\* No call is in progress: control is in the event loop, where the next call
\* starts.
NoCall == Returned("none", NULL)

\* add_product: part_number is UNIQUE; a duplicate raises IntegrityError and
\* the method returns None.
add_product(part_number, description) ==
    /\ out = NoCall
    /\ IF \E i \in DOMAIN products : products[i].part_number = part_number
       THEN /\ products' = products
            /\ out' = Returned("add_product", NULL)
       ELSE /\ Len(products) < MaxProducts
            /\ products' = Append(products, [part_number |-> part_number,
                                             description |-> description])
            /\ out' = Returned("add_product", Val(Len(products) + 1))
    /\ UNCHANGED <<components, component_sources, bom_entries, sub_assemblies>>
    /\ UNCHANGED calls

\* add_component: (mfg_part_number, manufacturer) is UNIQUE; a duplicate
\* returns the id of the row that exists.
add_component(mfg_part_number, manufacturer, description) ==
    /\ out = NoCall
    /\ IF \E i \in DOMAIN components :
             /\ components[i].mfg_part_number = mfg_part_number
             /\ components[i].manufacturer = manufacturer
       THEN /\ components' = components
            /\ out' = Returned("add_component",
                         Val(CHOOSE i \in DOMAIN components :
                               /\ components[i].mfg_part_number = mfg_part_number
                               /\ components[i].manufacturer = manufacturer))
       ELSE /\ Len(components) < MaxComponents
            /\ components' = Append(components,
                                [mfg_part_number |-> mfg_part_number,
                                 manufacturer    |-> manufacturer,
                                 description     |-> description])
            /\ out' = Returned("add_component", Val(Len(components) + 1))
    /\ UNCHANGED <<products, component_sources, bom_entries, sub_assemblies>>
    /\ UNCHANGED calls

\* The INSERT branch taken whether or not the pair has a source.
add_component_source_insert(component_id, distributor, distributor_part_number, unit_cost) ==
    /\ out = NoCall
    /\ Len(component_sources) < MaxSources
    /\ component_sources' = Append(component_sources,
          [component_id            |-> component_id,
           distributor             |-> distributor,
           distributor_part_number |-> distributor_part_number,
           unit_cost               |-> unit_cost])
    /\ out' = Returned("add_component_source", Val(Len(component_sources) + 1))
    /\ UNCHANGED <<products, components, bom_entries, sub_assemblies>>
    /\ UNCHANGED calls

\* add_component_source: update the source of this (component, distributor)
\* when there is one (fetchone: the first in rowid order), else insert.
add_component_source(component_id, distributor, distributor_part_number, unit_cost) ==
    LET existing == {i \in DOMAIN component_sources :
                        /\ component_sources[i].component_id = component_id
                        /\ component_sources[i].distributor = distributor}
    IN /\ out = NoCall
       /\ IF existing # {}
          THEN LET i == CHOOSE i \in existing : \A j \in existing : i <= j
               IN /\ component_sources' =
                        [component_sources EXCEPT
                            ![i].distributor_part_number = distributor_part_number,
                            ![i].unit_cost = unit_cost]
                  /\ out' = Returned("add_component_source", Val(i))
          ELSE /\ Len(component_sources) < MaxSources
               /\ component_sources' = Append(component_sources,
                     [component_id            |-> component_id,
                      distributor             |-> distributor,
                      distributor_part_number |-> distributor_part_number,
                      unit_cost               |-> unit_cost])
               /\ out' = Returned("add_component_source",
                                  Val(Len(component_sources) + 1))
       /\ UNCHANGED <<products, components, bom_entries, sub_assemblies>>
       /\ UNCHANGED calls

\* add_bom_entry: a plain INSERT.
add_bom_entry(product_id, component_id, quantity, reference_designators, do_not_populate) ==
    /\ out = NoCall
    /\ Len(bom_entries) < MaxEntries
    /\ bom_entries' = Append(bom_entries,
          [product_id            |-> product_id,
           component_id          |-> component_id,
           quantity              |-> quantity,
           reference_designators |-> reference_designators,
           do_not_populate       |-> do_not_populate])
    /\ out' = Returned("add_bom_entry", Val(Len(bom_entries) + 1))
    /\ UNCHANGED <<products, components, component_sources, sub_assemblies>>
    /\ UNCHANGED calls

\* add_sub_assembly: a plain INSERT.
add_sub_assembly(parent_product_id, child_product_id, quantity, reference_designators) ==
    /\ out = NoCall
    /\ Len(sub_assemblies) < MaxEdges
    /\ sub_assemblies' = Append(sub_assemblies,
          [parent_product_id     |-> parent_product_id,
           child_product_id      |-> child_product_id,
           quantity              |-> quantity,
           reference_designators |-> reference_designators])
    /\ out' = Returned("add_sub_assembly", Val(Len(sub_assemblies) + 1))
    /\ UNCHANGED <<products, components, component_sources, bom_entries>>
    /\ UNCHANGED calls

\* A call of calculate_bom_cost: it reads the tables and returns.
CalculateBomCost(product_id, quantity, include_dnp) ==
    /\ out = NoCall
    /\ out' = [op |-> "calculate_bom_cost", product_id |-> product_id,
               quantity |-> quantity, include_dnp |-> include_dnp,
               result |-> calculate_bom_cost(product_id, quantity, include_dnp)]
    /\ UNCHANGED tables
    /\ UNCHANGED calls

\* A call that starts from the dict the call before it left behind, as it
\* would were flattened kept between calls.
GetFlattenedBomAccumulating(product_id, quantity, include_dnp) ==
    LET kept == IF out.op = "get_flattened_bom" /\ out.result.error = NoError
                THEN [n \in DOMAIN out.result.flattened |->
                        [key   |-> FlattenKey(out.result.flattened[n].mfg_part_number,
                                              out.result.flattened[n].manufacturer),
                         value |-> out.result.flattened[n]]]
                ELSE <<>>
        r    == flatten_recursive(product_id, Float(quantity), include_dnp, 1, kept)
    IN /\ out = NoCall \/ out.op = "get_flattened_bom"
       /\ out' = [op |-> "get_flattened_bom", product_id |-> product_id,
                  quantity |-> quantity, include_dnp |-> include_dnp,
                  result |-> [error |-> r.error,
                              flattened |-> [n \in DOMAIN r.flattened |->
                                                r.flattened[n].value]]]
       /\ UNCHANGED tables
       /\ UNCHANGED calls

\* A call of get_flattened_bom: it reads the tables and returns.
GetFlattenedBom(product_id, quantity, include_dnp) ==
    /\ out = NoCall
    /\ out' = [op |-> "get_flattened_bom", product_id |-> product_id,
               quantity |-> quantity, include_dnp |-> include_dnp,
               result |-> get_flattened_bom(product_id, quantity, include_dnp)]
    /\ UNCHANGED tables
    /\ UNCHANGED calls

\* A call that takes the rows it returns out of bom_entries.
GetProductBomConsuming(product_id, include_dnp) ==
    /\ out = NoCall
    /\ out' = [op |-> "get_product_bom", product_id |-> product_id,
               quantity |-> 0, include_dnp |-> include_dnp,
               result |-> get_product_bom(product_id, include_dnp)]
    /\ bom_entries' = SelectSeq(bom_entries,
                                LAMBDA be : be.product_id # product_id)
    /\ UNCHANGED <<products, components, component_sources, sub_assemblies>>
    /\ UNCHANGED calls

\* A call of get_product_bom (load_bom makes one for the selected product): it
\* reads the tables and returns the two result sets.
GetProductBom(product_id, include_dnp) ==
    /\ out = NoCall
    /\ out' = [op |-> "get_product_bom", product_id |-> product_id,
               quantity |-> 0, include_dnp |-> include_dnp,
               result |-> get_product_bom(product_id, include_dnp)]
    /\ UNCHANGED tables
    /\ UNCHANGED calls

-----------------------------------------------------------------------------
(* The operations that delete rows.  AUTOINCREMENT never gives the id of a  *)
(* deleted row to a new one, so a deleted row leaves its place in the      *)
(* sequence to a blank row that belongs to no product and no component:    *)
(* no query finds it, and the ids of the rows after it stay what they were.*)

DeletedSource ==
    [component_id |-> 0, distributor |-> <<>>,
     distributor_part_number |-> <<>>, unit_cost |-> NULL,
     last_updated |-> NULL]

DeletedEntry ==
    [product_id |-> 0, component_id |-> 0, quantity |-> {},
     reference_designators |-> <<>>, do_not_populate |-> FALSE]

DeletedEdge ==
    [parent_product_id |-> 0, child_product_id |-> 0, quantity |-> {},
     reference_designators |-> <<>>]

\* The rows of component_sources that are there, by id.
LiveSources == {i \in DOMAIN component_sources : component_sources[i] # DeletedSource}

\* WHERE component_id = ? AND distributor = ?
SourcesOfPair(pair) ==
    {i \in LiveSources : /\ component_sources[i].component_id = pair[1]
                         /\ component_sources[i].distributor = pair[2]}

\* GROUP BY component_id, distributor HAVING count > 1
DuplicatedPairs ==
    {pair \in {<<component_sources[i].component_id, component_sources[i].distributor>> :
                  i \in LiveSources} :
        Cardinality(SourcesOfPair(pair)) > 1}

\* ORDER BY last_updated DESC: row i may come before row j.  NULL sorts last;
\* SQL leaves the order of rows with equal last_updated open.
UpdatedNotBefore(i, j) ==
    LET a == component_sources[i].last_updated
        b == component_sources[j].last_updated
    IN IF IsNull(b) THEN TRUE
       ELSE IF IsNull(a) THEN FALSE
       ELSE a = b \/ TextLess(Get(b), Get(a))

\* The rows that can be all_sources[0] for a pair.
MostRecent(pair) ==
    {i \in SourcesOfPair(pair) : \A j \in SourcesOfPair(pair) : UpdatedNotBefore(i, j)}

\* A variant that keeps the first row of ORDER BY last_updated ASC.
cleanup_duplicate_sources_oldest ==
    /\ out = NoCall
    /\ \E keep \in [DuplicatedPairs -> LiveSources] :
          /\ \A pair \in DuplicatedPairs :
                /\ keep[pair] \in SourcesOfPair(pair)
                /\ \A j \in SourcesOfPair(pair) : UpdatedNotBefore(j, keep[pair])
          /\ LET removed == {i \in LiveSources :
                               \E pair \in DuplicatedPairs :
                                  i \in SourcesOfPair(pair) \ {keep[pair]}}
             IN /\ component_sources' =
                      [i \in DOMAIN component_sources |->
                          IF i \in removed THEN DeletedSource
                          ELSE component_sources[i]]
                /\ out' = Returned("cleanup_duplicate_sources",
                                   Val(Cardinality(removed)))
    /\ UNCHANGED <<products, components, bom_entries, sub_assemblies>>
    /\ UNCHANGED calls

\* cleanup_duplicate_sources: for every duplicated pair keep all_sources[0]
\* and delete the rows after it; return how many rows were deleted.
cleanup_duplicate_sources ==
    /\ out = NoCall
    /\ \E keep \in [DuplicatedPairs -> LiveSources] :
          /\ \A pair \in DuplicatedPairs : keep[pair] \in MostRecent(pair)
          /\ LET removed == {i \in LiveSources :
                               \E pair \in DuplicatedPairs :
                                  i \in SourcesOfPair(pair) \ {keep[pair]}}
             IN /\ component_sources' =
                      [i \in DOMAIN component_sources |->
                          IF i \in removed THEN DeletedSource
                          ELSE component_sources[i]]
                /\ out' = Returned("cleanup_duplicate_sources",
                                   Val(Cardinality(removed)))
    /\ UNCHANGED <<products, components, bom_entries, sub_assemblies>>
    /\ UNCHANGED calls

\* A variant whose second DELETE selects on child_product_id.
delete_entire_bom_as_child(product_id) ==
    LET entries == {i \in DOMAIN bom_entries : bom_entries[i].product_id = product_id}
        edges   == {i \in DOMAIN sub_assemblies :
                       sub_assemblies[i].child_product_id = product_id}
    IN /\ out = NoCall
       /\ bom_entries' = [i \in DOMAIN bom_entries |->
                             IF i \in entries THEN DeletedEntry ELSE bom_entries[i]]
       /\ sub_assemblies' = [i \in DOMAIN sub_assemblies |->
                                IF i \in edges THEN DeletedEdge ELSE sub_assemblies[i]]
       /\ out' = Returned("delete_entire_bom",
                          Val(Cardinality(entries) + Cardinality(edges)))
       /\ UNCHANGED <<products, components, component_sources>>
       /\ UNCHANGED calls

\* delete_entire_bom: DELETE FROM bom_entries WHERE product_id = ?, DELETE
\* FROM sub_assemblies WHERE parent_product_id = ?, and the two rowcounts
\* added up.
delete_entire_bom(product_id) ==
    LET entries == {i \in DOMAIN bom_entries : bom_entries[i].product_id = product_id}
        edges   == {i \in DOMAIN sub_assemblies :
                       sub_assemblies[i].parent_product_id = product_id}
    IN /\ out = NoCall
       /\ bom_entries' = [i \in DOMAIN bom_entries |->
                             IF i \in entries THEN DeletedEntry ELSE bom_entries[i]]
       /\ sub_assemblies' = [i \in DOMAIN sub_assemblies |->
                                IF i \in edges THEN DeletedEdge ELSE sub_assemblies[i]]
       /\ out' = Returned("delete_entire_bom",
                          Val(Cardinality(entries) + Cardinality(edges)))
       /\ UNCHANGED <<products, components, component_sources>>
       /\ UNCHANGED calls

-----------------------------------------------------------------------------
(* The two form actions of the BOM tab.  The comboboxes hold one string per *)
(* product, f"{part_number} - {description}", and one per component,       *)
(* f"{mfg_part_number} ({manufacturer})"; the handlers split the selected  *)
(* string to find the row again.                                           *)

\* f"{p['part_number']} - {p['description']}"
ProductItem(p) == p.part_number \o <<32, 45, 32>> \o p.description

StartsWith(s, sep) == Len(sep) <= Len(s) /\ SubSeq(s, 1, Len(sep)) = sep

Contains(s, sep) ==
    \E n \in 1..Len(s) : StartsWith(SubSeq(s, n, Len(s)), sep)

\* s.split(sep)[0]
RECURSIVE BeforeFirst(_, _)
BeforeFirst(s, sep) ==
    IF s = <<>> \/ StartsWith(s, sep) THEN <<>>
    ELSE <<Head(s)>> \o BeforeFirst(Tail(s), sep)

\* What follows the first sep in s, for an s that contains sep.
AfterFirst(s, sep) ==
    SubSeq(s, Len(BeforeFirst(s, sep)) + Len(sep) + 1, Len(s))

\* s.rstrip(chr(c))
RECURSIVE RStrip(_, _)
RStrip(s, c) ==
    IF s # <<>> /\ s[Len(s)] = c THEN RStrip(SubSeq(s, 1, Len(s) - 1), c)
    ELSE s

\* get_product: the row with this part number, as a set of at most one id.
get_product(part_number) ==
    {i \in DOMAIN products : products[i].part_number = part_number}

\* add_to_bom: find the product and the component of the selected strings,
\* refuse a component that is already in this BOM, else add_bom_entry.  The
\* handler returns None on every path.
add_to_bom(product_str, component_str, qty, ref_des) ==
    LET part_number == BeforeFirst(product_str, <<32, 45, 32>>)
        product == get_product(part_number)
        mpn == BeforeFirst(component_str, <<32, 40>>)
        mfg == RStrip(BeforeFirst(AfterFirst(component_str, <<40>>), <<40>>), 41)
        component == {i \in DOMAIN components :
                         /\ components[i].mfg_part_number = mpn
                         /\ components[i].manufacturer = mfg}
        duplicate == \E i \in DOMAIN bom_entries :
                         /\ bom_entries[i].product_id \in product
                         /\ bom_entries[i].component_id \in component
    IN /\ out = NoCall
       /\ Contains(component_str, <<40>>)
       /\ IF product # {} /\ component # {} /\ ~duplicate
          THEN /\ Len(bom_entries) < MaxEntries
               /\ bom_entries' = Append(bom_entries,
                     [product_id            |-> CHOOSE i \in product : TRUE,
                      component_id          |-> CHOOSE i \in component : TRUE,
                      quantity              |-> qty,
                      reference_designators |-> ref_des,
                      do_not_populate       |-> FALSE])
          ELSE bom_entries' = bom_entries
       /\ out' = Returned("add_to_bom", NULL)
       /\ UNCHANGED <<products, components, component_sources, sub_assemblies>>
       /\ UNCHANGED calls

\* add_subassembly_to_bom: refuse a product as its own sub-assembly and a
\* sub-assembly that is already in this BOM, else add_sub_assembly.
add_subassembly_to_bom(product_str, sub_str, qty, ref_des) ==
    LET parent_pn == BeforeFirst(product_str, <<32, 45, 32>>)
        child_pn == BeforeFirst(sub_str, <<32, 45, 32>>)
        parent_product == get_product(parent_pn)
        child_product == get_product(child_pn)
        duplicate == \E i \in DOMAIN sub_assemblies :
                         /\ sub_assemblies[i].parent_product_id \in parent_product
                         /\ sub_assemblies[i].child_product_id \in child_product
    IN /\ out = NoCall
       /\ IF /\ parent_pn # child_pn
             /\ parent_product # {} /\ child_product # {}
             /\ ~duplicate
          THEN /\ Len(sub_assemblies) < MaxEdges
               /\ sub_assemblies' = Append(sub_assemblies,
                     [parent_product_id     |-> CHOOSE i \in parent_product : TRUE,
                      child_product_id      |-> CHOOSE i \in child_product : TRUE,
                      quantity              |-> qty,
                      reference_designators |-> ref_des])
          ELSE sub_assemblies' = sub_assemblies
       /\ out' = Returned("add_subassembly_to_bom", NULL)
       /\ UNCHANGED <<products, components, component_sources, bom_entries>>
       /\ UNCHANGED calls

\* The caller is done with what the call returned and control is back in the
\* event loop.
Idle == /\ out # NoCall
        /\ out' = NoCall
        /\ UNCHANGED tables
        /\ UNCHANGED calls

-----------------------------------------------------------------------------
(* Resolver calls made from several threads on the one BOMDatabase object.  *)
(* connect() opens the connection with sqlite3's default                   *)
(* check_same_thread=True and keeps one cursor in self.cursor, which every *)
(* method uses: sqlite3 raises ProgrammingError from any method of the     *)
(* connection or the cursor that is called in a thread other than the one  *)
(* that opened the connection, before the method does anything.            *)

MainThread == "MainThread"
Threads == {MainThread, "Thread-1"}

ProgrammingError == "ProgrammingError"

\* No call of this thread is in progress.
NoThreadCall ==
    [pc |-> "idle", op |-> "none", product_id |-> 0, quantity |-> 0,
     include_dnp |-> FALSE, result |-> NULL]

NoCalls == [t \in Threads |-> NoThreadCall]

\* A thread enters calculate_bom_cost or get_flattened_bom.
StartCall(t, op, product_id, quantity, include_dnp) ==
    /\ calls[t].pc = "idle"
    /\ calls' = [calls EXCEPT ![t] =
                    [pc |-> "running", op |-> op, product_id |-> product_id,
                     quantity |-> quantity, include_dnp |-> include_dnp,
                     result |-> NULL]]
    /\ UNCHANGED tables
    /\ UNCHANGED out

\* The call reaches self.cursor.execute in get_product_bom.  In the thread
\* that opened the connection it goes on to its return: no other thread gets
\* past the thread check, so none touches the cursor meanwhile.  In any other
\* thread execute raises, and the exception ends the call.
Execute(t) ==
    /\ calls[t].pc = "running"
    /\ calls' = [calls EXCEPT
          ![t].pc = "returned",
          ![t].result =
              IF t # MainThread
              THEN [error |-> ProgrammingError]
              ELSE IF calls[t].op = "calculate_bom_cost"
              THEN calculate_bom_cost(calls[t].product_id, calls[t].quantity,
                                      calls[t].include_dnp)
              ELSE get_flattened_bom(calls[t].product_id, calls[t].quantity,
                                     calls[t].include_dnp)]
    /\ UNCHANGED tables
    /\ UNCHANGED out

\* The thread is done with what its call returned or raised.
EndCall(t) ==
    /\ calls[t].pc = "returned"
    /\ calls' = [calls EXCEPT ![t] = NoThreadCall]
    /\ UNCHANGED tables
    /\ UNCHANGED out

-----------------------------------------------------------------------------
(* The database Spec starts from, and the inputs its calls draw from.      *)

Empty == <<>>                 \* ''
DK == <<68, 75>>              \* 'DK'
ACME == <<65, 67, 77, 69>>    \* 'ACME'

\* The file bom_database.db as an earlier session left it: three products and
\* two components, the first with one source.  Neither the part numbers nor
\* the manufacturer part numbers are in rowid order.
BaseProducts ==
    << [part_number |-> <<80, 49>>, description |-> Empty],     \* 'P1'
       [part_number |-> <<80, 51>>, description |-> Empty],     \* 'P3'
       [part_number |-> <<80, 50>>, description |-> Empty] >>   \* 'P2'

BaseComponents ==
    << [mfg_part_number |-> <<82, 49>>, manufacturer |-> ACME,  \* 'R1'
        description |-> Empty],
       [mfg_part_number |-> <<67, 49>>, manufacturer |-> ACME,  \* 'C1'
        description |-> Empty] >>

BaseSources ==
    << [component_id |-> 1, distributor |-> DK,
        distributor_part_number |-> Empty, unit_cost |-> Val(Float(3))] >>

Entry(product_id, component_id, quantity, do_not_populate) ==
    [product_id |-> product_id, component_id |-> component_id,
     quantity |-> Float(quantity), reference_designators |-> Empty,
     do_not_populate |-> do_not_populate]

Edge(parent_product_id, child_product_id, quantity) ==
    [parent_product_id |-> parent_product_id,
     child_product_id |-> child_product_id,
     quantity |-> Float(quantity), reference_designators |-> Empty]

BaseInputs ==
    [part_numbers |-> {BaseProducts[i].part_number : i \in DOMAIN BaseProducts},
     components   |-> {BaseComponents[i] : i \in DOMAIN BaseComponents},
     sources      |-> {BaseSources[1],
                       [component_id |-> 2, distributor |-> DK,
                        distributor_part_number |-> Empty,
                        unit_cost |-> Val(Float(1))]},
     entries      |-> {Entry(1, 1, 2, FALSE), Entry(1, 2, 1, FALSE),
                       Entry(2, 1, 3, FALSE), Entry(3, 2, 2, TRUE)},
     edges        |-> {Edge(1, 3, 3), Edge(1, 3, 0), Edge(3, 2, 2),
                       Edge(2, 3, 1)},
     roots        |-> {1, 2, 3},
     multipliers  |-> {1, 3}]

Init == /\ products = BaseProducts
        /\ components = BaseComponents
        /\ component_sources = BaseSources
        /\ bom_entries = <<>>
        /\ sub_assemblies = <<>>
        /\ out = NoCall
        /\ calls = NoCalls

\* One step: a call from the event loop, its arguments drawn from the inputs
\* U, or the return to the event loop.
Step(U) ==
    \/ \E pn \in U.part_numbers : add_product(pn, Empty)
    \/ \E c \in U.components :
          add_component(c.mfg_part_number, c.manufacturer, c.description)
    \/ \E src \in U.sources :
          add_component_source(src.component_id, src.distributor,
                               src.distributor_part_number, src.unit_cost)
    \/ \E e \in U.entries :
          add_bom_entry(e.product_id, e.component_id, e.quantity,
                        e.reference_designators, e.do_not_populate)
    \/ \E e \in U.edges :
          add_sub_assembly(e.parent_product_id, e.child_product_id,
                           e.quantity, e.reference_designators)
    \/ \E r \in U.roots, m \in U.multipliers, d \in BOOLEAN :
          CalculateBomCost(r, m, d)
    \/ \E r \in U.roots, m \in U.multipliers, d \in BOOLEAN :
          GetFlattenedBom(r, m, d)
    \/ \E r \in U.roots, d \in BOOLEAN : GetProductBom(r, d)
    \/ \E e \in U.entries :
          /\ e.product_id \in DOMAIN products
          /\ e.component_id \in DOMAIN components
          /\ ~e.do_not_populate
          /\ add_to_bom(ProductItem(products[e.product_id]),
                        ComponentLabel(components[e.component_id]),
                        e.quantity, e.reference_designators)
    \/ \E e \in U.edges :
          /\ e.parent_product_id \in DOMAIN products
          /\ e.child_product_id \in DOMAIN products
          /\ add_subassembly_to_bom(ProductItem(products[e.parent_product_id]),
                                    ProductItem(products[e.child_product_id]),
                                    e.quantity, e.reference_designators)
    \/ Idle

Next == Step(BaseInputs)

Spec == Init /\ [][Next]_vars

-----------------------------------------------------------------------------
(* A database whose two components have different (mfg_part_number,        *)
(* manufacturer) pairs, 'A|B' by 'C' and 'A' by 'B|C'.  Both columns are    *)
(* free TEXT (create_tables puts no CHECK on them), and the pair is UNIQUE, *)
(* so add_component stores both.                                           *)

KeysComponents ==
    << [mfg_part_number |-> <<65, 124, 66>>, manufacturer |-> <<67>>,
        description |-> Empty],                                 \* 'A|B', 'C'
       [mfg_part_number |-> <<65>>, manufacturer |-> <<66, 124, 67>>,
        description |-> Empty] >>                               \* 'A', 'B|C'

KeysSources ==
    << [component_id |-> 1, distributor |-> DK,
        distributor_part_number |-> Empty, unit_cost |-> Val(Float(3))],
       [component_id |-> 2, distributor |-> DK,
        distributor_part_number |-> Empty, unit_cost |-> Val(Float(1))] >>

KeysInputs ==
    [part_numbers |-> {BaseProducts[i].part_number : i \in DOMAIN BaseProducts},
     components   |-> {KeysComponents[i] : i \in DOMAIN KeysComponents},
     sources      |-> {KeysSources[1]},
     entries      |-> {Entry(1, 1, 2, FALSE), Entry(1, 2, 1, FALSE),
                       Entry(2, 1, 1, FALSE)},
     edges        |-> {Edge(1, 2, 2), Edge(1, 2, 1)},
     roots        |-> {1, 2},
     multipliers  |-> {1, 3}]

KeysInit == /\ products = BaseProducts
            /\ components = KeysComponents
            /\ component_sources = KeysSources
            /\ bom_entries = <<>>
            /\ sub_assemblies = <<>>
            /\ out = NoCall
            /\ calls = NoCalls

KeysNext == Step(KeysInputs)

SpecKeys == KeysInit /\ [][KeysNext]_vars

-----------------------------------------------------------------------------
(* A database with the products WIDGET-1 and SUB-1 and two components, one  *)
(* that costs 2.50 and one that costs 1.00.                                *)

TwoFifty == BShift(Float(5), -1)    \* 2.5

WidgetProducts ==
    << [part_number |-> <<87, 73, 68, 71, 69, 84, 45, 49>>,     \* 'WIDGET-1'
        description |-> Empty],
       [part_number |-> <<83, 85, 66, 45, 49>>,                 \* 'SUB-1'
        description |-> Empty] >>

WidgetSources ==
    << [component_id |-> 1, distributor |-> DK,
        distributor_part_number |-> Empty, unit_cost |-> Val(TwoFifty)],
       [component_id |-> 2, distributor |-> DK,
        distributor_part_number |-> Empty, unit_cost |-> Val(Float(1))] >>

WidgetInputs ==
    [part_numbers |-> {WidgetProducts[i].part_number : i \in DOMAIN WidgetProducts},
     components   |-> {BaseComponents[i] : i \in DOMAIN BaseComponents},
     sources      |-> {WidgetSources[1]},
     entries      |-> {Entry(1, 1, 4, FALSE), Entry(2, 2, 3, FALSE),
                       Entry(2, 1, 1, TRUE)},
     edges        |-> {Edge(1, 2, 2), Edge(1, 2, 1)},
     roots        |-> {1, 2},
     multipliers  |-> {1, 2}]

WidgetInit == /\ products = WidgetProducts
              /\ components = BaseComponents
              /\ component_sources = WidgetSources
              /\ bom_entries = <<>>
              /\ sub_assemblies = <<>>
              /\ out = NoCall
              /\ calls = NoCalls

WidgetNext == Step(WidgetInputs)

SpecWidget == WidgetInit /\ [][WidgetNext]_vars

-----------------------------------------------------------------------------
(* The first run: no file bom_database.db yet, so create_tables leaves five *)
(* empty tables.  Calls may name rows that do not exist (yet): no foreign   *)
(* key is enforced (connect issues no PRAGMA foreign_keys).  unit_cost is a *)
(* nullable column, and one of the sources comes without a cost.           *)

MO == <<77, 79>>              \* 'MO'

FreshInputs ==
    [part_numbers |-> {<<80, 49>>, <<80, 50>>},                 \* 'P1', 'P2'
     components   |-> {BaseComponents[1]},
     sources      |-> {[component_id |-> 1, distributor |-> DK,
                        distributor_part_number |-> Empty,
                        unit_cost |-> Val(Float(3))],
                       [component_id |-> 1, distributor |-> DK,
                        distributor_part_number |-> DK,
                        unit_cost |-> Val(Float(1))],
                       [component_id |-> 1, distributor |-> MO,
                        distributor_part_number |-> Empty,
                        unit_cost |-> NULL]},
     entries      |-> {Entry(1, 1, 2, FALSE), Entry(2, 1, 1, TRUE)},
     edges        |-> {Edge(1, 2, 2), Edge(2, 1, 1)},
     roots        |-> {1, 2},
     multipliers  |-> {0, 1}]

FreshInit == /\ products = <<>>
             /\ components = <<>>
             /\ component_sources = <<>>
             /\ bom_entries = <<>>
             /\ sub_assemblies = <<>>
             /\ out = NoCall
             /\ calls = NoCalls

FreshNext == Step(FreshInputs)

SpecFresh == FreshInit /\ [][FreshNext]_vars

-----------------------------------------------------------------------------
(* The database of WIDGET-1 with its bill of materials stored, read by     *)
(* resolver calls from two threads while nothing writes to it.            *)

ThreadsInit == /\ products = WidgetProducts
               /\ components = BaseComponents
               /\ component_sources = WidgetSources
               /\ bom_entries = <<Entry(1, 1, 4, FALSE), Entry(2, 2, 3, FALSE),
                                  Entry(2, 1, 1, TRUE)>>
               /\ sub_assemblies = <<Edge(1, 2, 2)>>
               /\ out = NoCall
               /\ calls = NoCalls

ThreadsNext ==
    \/ \E t \in Threads, op \in {"calculate_bom_cost", "get_flattened_bom"},
          r \in WidgetInputs.roots, m \in WidgetInputs.multipliers, d \in BOOLEAN :
          StartCall(t, op, r, m, d)
    \/ \E t \in Threads : Execute(t)
    \/ \E t \in Threads : EndCall(t)

SpecThreads == ThreadsInit /\ [][ThreadsNext]_vars

-----------------------------------------------------------------------------
(* A database file written before add_component_source looked for the pair *)
(* first: component_sources holds several rows for one (component,         *)
(* distributor) pair, each with the last_updated of the call that wrote    *)
(* it.  The Maintenance menu runs cleanup_duplicate_sources on it.         *)

Earlier == <<50, 48, 50, 52>>      \* '2024...', an isoformat() string
Later   == <<50, 48, 50, 53>>      \* '2025...', a later one

LegacyRows ==
    {[component_id |-> 1, distributor |-> d, distributor_part_number |-> Empty,
      unit_cost |-> Val(Float(k)), last_updated |-> Val(t)] :
        d \in {DK, MO}, k \in {1, 3}, t \in {Earlier, Later}}

CleanupInit == /\ products = WidgetProducts
               /\ components = BaseComponents
               /\ component_sources \in [1..(MaxSources + 1) -> LegacyRows]
               /\ bom_entries = <<Entry(1, 1, 4, FALSE)>>
               /\ sub_assemblies = <<>>
               /\ out = NoCall
               /\ calls = NoCalls

CleanupNext ==
    \/ cleanup_duplicate_sources
    \/ \E d \in BOOLEAN : GetProductBom(1, d)
    \/ \E m \in WidgetInputs.multipliers : CalculateBomCost(1, m, FALSE)
    \/ Idle

SpecCleanup == CleanupInit /\ [][CleanupNext]_vars

-----------------------------------------------------------------------------
(* A database with three products and two components, the second of which  *)
(* is a free sample: its one source has unit_cost 0.0.  Bills of materials  *)
(* are entered, costed, flattened, and deleted again with "Delete Entire    *)
(* BOM".                                                                    *)

DeleteSources ==
    << [component_id |-> 1, distributor |-> DK,
        distributor_part_number |-> Empty, unit_cost |-> Val(Float(3))],
       [component_id |-> 2, distributor |-> DK,
        distributor_part_number |-> Empty, unit_cost |-> Val(Float(0))] >>

DeleteInputs ==
    [entries     |-> {Entry(1, 1, 2, FALSE), Entry(2, 2, 1, FALSE),
                      Entry(2, 1, 3, TRUE), Entry(3, 1, 1, FALSE)},
     edges       |-> {Edge(1, 2, 2), Edge(2, 3, 3)},
     roots       |-> {1, 2},
     multipliers |-> {1, 2}]

DeleteInit == /\ products = BaseProducts
              /\ components = BaseComponents
              /\ component_sources = DeleteSources
              /\ bom_entries = <<>>
              /\ sub_assemblies = <<>>
              /\ out = NoCall
              /\ calls = NoCalls

DeleteNext ==
    \/ \E e \in DeleteInputs.entries :
          add_bom_entry(e.product_id, e.component_id, e.quantity,
                        e.reference_designators, e.do_not_populate)
    \/ \E e \in DeleteInputs.edges :
          add_sub_assembly(e.parent_product_id, e.child_product_id,
                           e.quantity, e.reference_designators)
    \/ \E p \in DOMAIN products : delete_entire_bom(p)
    \/ \E r \in DeleteInputs.roots, m \in DeleteInputs.multipliers, d \in BOOLEAN :
          CalculateBomCost(r, m, d)
    \/ \E r \in DeleteInputs.roots, m \in DeleteInputs.multipliers, d \in BOOLEAN :
          GetFlattenedBom(r, m, d)
    \/ Idle

SpecDelete == DeleteInit /\ [][DeleteNext]_vars

-----------------------------------------------------------------------------
(* The product graph, for stating what the resolvers compute.  The sums and *)
(* products below are exact (BAdd, BMul): they are the real-number values   *)
(* the properties speak of, next to the doubles the program returns.        *)

\* The sub-assembly rows the accessor returns for a product, by rowid.
EdgesOut(product_id) ==
    {e \in DOMAIN sub_assemblies :
        /\ sub_assemblies[e].parent_product_id = product_id
        /\ sub_assemblies[e].child_product_id \in DOMAIN products}

\* The entries the accessor returns for a product, by rowid.
EntriesOf(product_id, include_dnp) ==
    {i \in DOMAIN bom_entries :
        /\ bom_entries[i].product_id = product_id
        /\ bom_entries[i].component_id \in DOMAIN components
        /\ include_dnp \/ ~bom_entries[i].do_not_populate}

\* The chains of at most n sub-assembly rows that start at a product.
RECURSIVE PathsFrom(_, _)
PathsFrom(product_id, n) ==
    {<<>>} \cup
    (IF n = 0 THEN {}
     ELSE UNION {{<<e>> \o t :
                    t \in PathsFrom(sub_assemblies[e].child_product_id, n - 1)} :
                 e \in EdgesOut(product_id)})

Paths(root) == PathsFrom(root, Len(sub_assemblies))

PathEnd(root, p) ==
    IF p = <<>> THEN root ELSE sub_assemblies[p[Len(p)]].child_product_id

\* The products a chain visits, the root included.
Visited(root, p) ==
    {root} \cup {sub_assemblies[p[n]].child_product_id : n \in DOMAIN p}

\* Some chain from root comes back to a product it has visited.
CycleFrom(root) ==
    \E p \in Paths(root) : Cardinality(Visited(root, p)) < Len(p) + 1

\* The product of the edge quantities on a chain.
RECURSIVE PathProduct(_)
PathProduct(p) ==
    IF p = <<>> THEN Float(1)
    ELSE BMul(sub_assemblies[Head(p)].quantity, PathProduct(Tail(p)))

\* The root-to-component paths: a chain and an entry of the product it ends at.
Lines(root, include_dnp) ==
    {l \in Paths(root) \X DOMAIN bom_entries :
        l[2] \in EntriesOf(PathEnd(root, l[1]), include_dnp)}

\* The sum of the values of a function with a finite domain.
RECURSIVE Sum(_)
Sum(f) ==
    IF DOMAIN f = {} THEN {}
    ELSE LET x == CHOOSE x \in DOMAIN f : TRUE
         IN BAdd(f[x], Sum([y \in DOMAIN f \ {x} |-> f[y]]))

\* unitCost x entryQuantity of an entry; 0 when the best source has no cost.
EntryCost(i) ==
    LET unit_cost == BestSource(bom_entries[i].component_id, "unit_cost")
    IN IF IsNull(unit_cost) THEN {}
       ELSE BMul(Get(unit_cost), bom_entries[i].quantity)

PathCost(root, m, include_dnp) ==
    Sum([l \in Lines(root, include_dnp) |->
            BMul(BMul(EntryCost(l[2]), PathProduct(l[1])), Float(m))])

CostCalled == out.op = "calculate_bom_cost"
FlattenCalled == out.op = "get_flattened_bom"

-----------------------------------------------------------------------------
\* C1: on a graph with no cycle below the root, the total calculate_bom_cost
\* returns is the sum, over every root-to-component path the accessor returns
\* whose component has a priced best source, of unitCost x entryQuantity x
\* (the product of the edge quantities on the path) x m.
C1_TotalIsPathSum ==
    (CostCalled /\ ~CycleFrom(out.product_id)) =>
        /\ out.result.error = NoError
        /\ out.result.total =
              PathCost(out.product_id, out.quantity, out.include_dnp)

\* A call with multiplier 3 on a tree where a priced component lies two edges
\* below the root.
C1_Witness ==
    /\ CostCalled /\ ~CycleFrom(out.product_id)
    /\ out.quantity = 3
    /\ \E l \in Lines(out.product_id, out.include_dnp) :
          Len(l[1]) = 2 /\ EntryCost(l[2]) # {} /\ PathProduct(l[1]) # {}
    /\ out.result.total = PathCost(out.product_id, 3, out.include_dnp)

\* C2: for a product with no sub-assembly edges the total is the sum of
\* unitCost x quantity x multiplier over its priced direct components, and a
\* product with no entries gets total 0 and an empty breakdown.
C2_DirectTotal ==
    (CostCalled /\ EdgesOut(out.product_id) = {}) =>
        LET direct == EntriesOf(out.product_id, out.include_dnp)
        IN /\ out.result.error = NoError
           /\ out.result.total =
                 Sum([i \in direct |-> BMul(EntryCost(i), Float(out.quantity))])
           /\ direct = {} =>
                 out.result.total = {} /\ out.result.component_costs = <<>>

\* A call on a product with no edges and two priced direct components.
C2_Witness ==
    /\ CostCalled /\ EdgesOut(out.product_id) = {}
    /\ out.quantity = 3
    /\ \E i, j \in EntriesOf(out.product_id, out.include_dnp) :
          /\ bom_entries[i].component_id # bom_entries[j].component_id
          /\ EntryCost(i) # {} /\ EntryCost(j) # {}
    /\ Len(out.result.component_costs) = 2

-----------------------------------------------------------------------------
\* The entry's best source has a cost, and the cost is not 0.
PricedEntry(i) ==
    LET unit_cost == BestSource(bom_entries[i].component_id, "unit_cost")
    IN ~IsNull(unit_cost) /\ Get(unit_cost) # {}

\* The quantity a root-to-component path asks for: entryQuantity x (the
\* product of the edge quantities on the path) x m.
PathQuantity(l, m) ==
    BMul(BMul(bom_entries[l[2]].quantity, PathProduct(l[1])), Float(m))

\* The (mfg_part_number, manufacturer) pair of the component of an entry.
PairOf(i) ==
    LET c == components[bom_entries[i].component_id]
    IN <<c.mfg_part_number, c.manufacturer>>

\* C3: on a graph with no cycle below the root in which every reachable
\* component has a priced best source, the sum of quantity x unit_cost over
\* the entries get_flattened_bom returns equals the total calculate_bom_cost
\* returns for the same root, multiplier and include_dnp flag.
C3_FlattenedCostIsTotal ==
    (/\ FlattenCalled
     /\ ~CycleFrom(out.product_id)
     /\ \A l \in Lines(out.product_id, out.include_dnp) : PricedEntry(l[2])) =>
        LET flattened == out.result.flattened
        IN /\ out.result.error = NoError
           /\ Sum([n \in DOMAIN flattened |->
                     BMul(flattened[n].quantity, Get(flattened[n].unit_cost))])
              = calculate_bom_cost(out.product_id, out.quantity,
                                   out.include_dnp).total

\* C5: a component reached from the root by two or more paths has a single
\* entry in the result of get_flattened_bom, and the quantity of that entry
\* is the sum of the path-scaled quantities.
C5_PathsAddUp ==
    (FlattenCalled /\ ~CycleFrom(out.product_id)) =>
        \A c \in DOMAIN components :
            LET reached == {l \in Lines(out.product_id, out.include_dnp) :
                               bom_entries[l[2]].component_id = c}
                mine == {n \in DOMAIN out.result.flattened :
                           /\ out.result.flattened[n].mfg_part_number
                                 = components[c].mfg_part_number
                           /\ out.result.flattened[n].manufacturer
                                 = components[c].manufacturer}
            IN Cardinality(reached) >= 2 =>
                  /\ Cardinality(mine) = 1
                  /\ \A n \in mine :
                        out.result.flattened[n].quantity =
                           Sum([l \in reached |-> PathQuantity(l, out.quantity)])

\* C6: the result of get_flattened_bom has exactly one entry per distinct
\* (mfg_part_number, manufacturer) pair reachable from the root: no two
\* entries share a pair, and no two different pairs share an entry.
C6_OneEntryPerPair ==
    (FlattenCalled /\ out.result.error = NoError) =>
        LET flattened == out.result.flattened
            pairs == {PairOf(l[2]) : l \in Lines(out.product_id, out.include_dnp)}
        IN /\ {<<flattened[n].mfg_part_number, flattened[n].manufacturer>> :
                  n \in DOMAIN flattened} = pairs
           /\ Len(flattened) = Cardinality(pairs)

\* Some chain of sub-assembly rows leads from the product back to it.
OnCycle(product_id) ==
    \E p \in Paths(product_id) : p # <<>> /\ PathEnd(product_id, p) = product_id

CycleDetected == "CycleDetected"

\* C7: calculate_bom_cost and get_flattened_bom, entered at a product on a
\* cycle of the sub-assembly graph, fail with the CycleDetected error.
C7_CycleDetected ==
    ((CostCalled \/ FlattenCalled) /\ OnCycle(out.product_id)) =>
        out.result.error = CycleDetected

-----------------------------------------------------------------------------
\* The factors k of the linearity property.
Factors == {2, 3}

\* C4: on a graph with no cycle below the root, the cost total for the
\* multiplier k x m is k times the total for m, and get_flattened_bom for
\* k x m returns the same entries as for m, each quantity k times as large.
C4_Linear ==
    /\ (CostCalled /\ ~CycleFrom(out.product_id)) =>
          \A k \in Factors :
             calculate_bom_cost(out.product_id, k * out.quantity,
                                out.include_dnp).total
             = BMul(Float(k), out.result.total)
    /\ (FlattenCalled /\ ~CycleFrom(out.product_id)) =>
          \A k \in Factors :
             LET one  == out.result.flattened
                 many == get_flattened_bom(out.product_id, k * out.quantity,
                                           out.include_dnp).flattened
             IN /\ Len(many) = Len(one)
                /\ \A n \in DOMAIN one :
                      many[n] = [one[n] EXCEPT !.quantity = BMul(Float(k), @)]

\* A call of get_flattened_bom whose result has an entry that two paths, one
\* of them through a sub-assembly, added to.
C4_Witness ==
    /\ FlattenCalled /\ ~CycleFrom(out.product_id)
    /\ \E l1, l2 \in Lines(out.product_id, out.include_dnp) :
          /\ l1 # l2 /\ l1[1] # <<>>
          /\ PairOf(l1[2]) = PairOf(l2[2])
          /\ PathQuantity(l1, 1) # {} /\ PathQuantity(l2, 1) # {}
    /\ get_flattened_bom(out.product_id, 3 * out.quantity,
                         out.include_dnp).flattened # out.result.flattened

\* The chains from root none of whose edges has quantity 0, with the entries
\* at their ends.
NonZeroLines(root, include_dnp) ==
    {l \in Lines(root, include_dnp) :
        \A n \in DOMAIN l[1] : sub_assemblies[l[1][n]].quantity # {}}

\* The lines of the breakdown that stand for the direct components.
PricedRows(product_id, include_dnp) ==
    SelectSeq(ComponentRows(product_id, include_dnp),
              LAMBDA comp : ~IsNull(comp.unit_cost) /\ Get(comp.unit_cost) # {})

\* C8: a sub-assembly edge with quantity 0 gets a rollup line with total 0 and
\* unit cost 0 and the call raises nothing; the cost total and every flattened
\* quantity are what the paths without such an edge add up to.
C8_ZeroEdge ==
    /\ (CostCalled /\ ~CycleFrom(out.product_id)) =>
          LET subs == SubAssemblyRows(out.product_id)
              base == Len(PricedRows(out.product_id, out.include_dnp))
          IN /\ out.result.error = NoError
             /\ Len(out.result.component_costs) = base + Len(subs)
             /\ \A n \in DOMAIN subs :
                   subs[n].quantity = {} =>
                      /\ out.result.component_costs[base + n].total = {}
                      /\ out.result.component_costs[base + n].unit_cost = {}
             /\ out.result.total =
                   Sum([l \in NonZeroLines(out.product_id, out.include_dnp) |->
                          BMul(BMul(EntryCost(l[2]), PathProduct(l[1])),
                               Float(out.quantity))])
    /\ (FlattenCalled /\ ~CycleFrom(out.product_id)) =>
          /\ out.result.error = NoError
          /\ \A n \in DOMAIN out.result.flattened :
                LET e == out.result.flattened[n]
                    merged == {l \in NonZeroLines(out.product_id, out.include_dnp) :
                                  FlattenKey(PairOf(l[2])[1], PairOf(l[2])[2])
                                  = FlattenKey(e.mfg_part_number, e.manufacturer)}
                IN e.quantity =
                      Sum([l \in merged |-> PathQuantity(l, out.quantity)])

\* A call of calculate_bom_cost on a product with a priced direct component
\* and an edge of quantity 0 to a product that has a priced component.
C8_Witness ==
    /\ CostCalled /\ ~CycleFrom(out.product_id)
    /\ out.result.total # {}
    /\ \E e \in EdgesOut(out.product_id) :
          /\ sub_assemblies[e].quantity = {}
          /\ \E i \in EntriesOf(sub_assemblies[e].child_product_id,
                                out.include_dnp) : EntryCost(i) # {}

\* The WIDGET-1 scenario is what the tables hold.
WidgetScenario ==
    /\ products = WidgetProducts
    /\ component_sources = WidgetSources
    /\ {bom_entries[i] : i \in DOMAIN bom_entries}
          = {Entry(1, 1, 4, FALSE), Entry(2, 2, 3, FALSE)}
    /\ Len(bom_entries) = 2
    /\ sub_assemblies = <<Edge(1, 2, 2)>>

\* C9: in the WIDGET-1 scenario calculate_bom_cost(WIDGET-1, 1) returns total
\* 16.00 and two lines, the direct component (total 10.00) and then the SUB-1
\* rollup (quantity 2, unit cost 3.00, total 6.00); get_flattened_bom(WIDGET-1,
\* 1) returns two entries, the direct component at quantity 4 and the
\* component of SUB-1 at quantity 6.
C9_Widget ==
    /\ (WidgetScenario /\ CostCalled /\ out.product_id = 1 /\ out.quantity = 1) =>
          /\ out.result.error = NoError
          /\ out.result.total = Float(16)
          /\ Len(out.result.component_costs) = 2
          /\ out.result.component_costs[1] =
                [item      |-> ComponentLabel(BaseComponents[1]),
                 quantity  |-> Float(4),
                 unit_cost |-> TwoFifty,
                 total     |-> Float(10)]
          /\ out.result.component_costs[2] =
                [item      |-> SubAssemblyLabel(WidgetProducts[2]),
                 quantity  |-> Float(2),
                 unit_cost |-> Float(3),
                 total     |-> Float(6)]
    /\ (WidgetScenario /\ FlattenCalled /\ out.product_id = 1 /\ out.quantity = 1) =>
          LET flattened == out.result.flattened
          IN /\ out.result.error = NoError
             /\ Len(flattened) = 2
             /\ flattened[1].mfg_part_number = BaseComponents[1].mfg_part_number
             /\ flattened[1].manufacturer = BaseComponents[1].manufacturer
             /\ flattened[1].quantity = Float(4)
             /\ flattened[2].mfg_part_number = BaseComponents[2].mfg_part_number
             /\ flattened[2].manufacturer = BaseComponents[2].manufacturer
             /\ flattened[2].quantity = Float(6)

\* calculate_bom_cost(WIDGET-1, 1) has returned in the scenario.
C9_Witness ==
    /\ WidgetScenario /\ CostCalled /\ out.product_id = 1 /\ out.quantity = 1
    /\ out.result.total = Float(16)

\* C10: the breakdown of a product is the lines of its priced direct
\* components in accessor order, then one rollup line per direct sub-assembly
\* edge in accessor order, and nothing else: no line of a descendant.
C10_BreakdownOrder ==
    (CostCalled /\ out.result.error = NoError) =>
        LET comps == PricedRows(out.product_id, out.include_dnp)
            subs  == SubAssemblyRows(out.product_id)
            lines == out.result.component_costs
        IN /\ Len(lines) = Len(comps) + Len(subs)
           /\ \A n \in DOMAIN comps :
                 /\ lines[n].item = ComponentLabel(comps[n])
                 /\ lines[n].quantity = comps[n].quantity
                 /\ lines[n].unit_cost = Get(comps[n].unit_cost)
           /\ \A n \in DOMAIN subs :
                 /\ lines[Len(comps) + n].item = SubAssemblyLabel(subs[n])
                 /\ lines[Len(comps) + n].quantity = subs[n].quantity
                 /\ lines[Len(comps) + n].total =
                       Sum([l \in Lines(subs[n].product_id, out.include_dnp) |->
                              BMul(BMul(EntryCost(l[2]), PathProduct(l[1])),
                                   BMul(subs[n].quantity, Float(out.quantity)))])

\* A breakdown of two lines: a direct component, then the rollup of a
\* sub-assembly that has a priced component of its own.
C10_Witness ==
    /\ CostCalled /\ out.result.error = NoError
    /\ Len(PricedRows(out.product_id, out.include_dnp)) = 1
    /\ \E e \in EdgesOut(out.product_id) :
          /\ sub_assemblies[e].quantity # {}
          /\ \E i \in EntriesOf(sub_assemblies[e].child_product_id,
                                out.include_dnp) : EntryCost(i) # {}
    /\ Len(out.result.component_costs) = 2

-----------------------------------------------------------------------------
\* total_cost after the first n lines of a breakdown have been added to it.
RECURSIVE RunningTotal(_, _)
RunningTotal(lines, n) ==
    IF n = 0 THEN {} ELSE FAdd(RunningTotal(lines, n - 1), lines[n].total)

\* C11: for a sub-assembly edge of quantity q visited with multiplier M the
\* rollup line has quantity q, total the total the child gets for M x q, and
\* unit_cost that total / (q x M) when q x M > 0 and 0 otherwise; and that
\* child total is what is added to the running total of the parent.
C11_RollupLine ==
    (CostCalled /\ out.result.error = NoError) =>
        LET M     == Float(out.quantity)
            subs  == SubAssemblyRows(out.product_id)
            lines == out.result.component_costs
            base  == Len(lines) - Len(subs)
        IN /\ base >= 0
           /\ \A n \in DOMAIN subs :
                 LET q     == subs[n].quantity
                     child == CostFrame(subs[n].product_id, FMul(q, M),
                                        out.include_dnp, 1)
                     line  == lines[base + n]
                 IN /\ line.quantity = q
                    /\ line.total = child.total
                    /\ line.unit_cost =
                          IF FMul(q, M) # {} THEN FDiv(child.total, FMul(q, M))
                          ELSE {}
                    /\ RunningTotal(lines, base + n) =
                          FAdd(RunningTotal(lines, base + n - 1), child.total)
           /\ out.result.total = RunningTotal(lines, Len(lines))

\* A call with multiplier 3 whose breakdown has a rollup line with a unit cost
\* that is not 0.
C11_Witness ==
    /\ CostCalled /\ out.result.error = NoError
    /\ out.quantity = 3
    /\ SubAssemblyRows(out.product_id) # <<>>
    /\ LET lines == out.result.component_costs
       IN /\ lines # <<>>
          /\ lines[Len(lines)].unit_cost # {}
          /\ lines[Len(lines)].total # {}

-----------------------------------------------------------------------------
\* The rows of the root of the last call whose component has no source.
UnpricedRows(product_id, include_dnp) ==
    LET rows == get_product_bom(product_id, include_dnp).components
    IN {rows[n] : n \in {k \in DOMAIN rows : SourcesOf(rows[k].component_id) = {}}}

\* C12: a component with no source adds nothing to the total and is flagged
\* as unpriced in the result of both calls: the breakdown of
\* calculate_bom_cost has a line for it with total 0, and the list of
\* get_flattened_bom has a line for it with no unit cost.
C12_UnpricedFlagged ==
    /\ (CostCalled /\ out.result.error = NoError) =>
          \A row \in UnpricedRows(out.product_id, out.include_dnp) :
             \E n \in DOMAIN out.result.component_costs :
                /\ out.result.component_costs[n].item = ComponentLabel(row)
                /\ out.result.component_costs[n].total = {}
    /\ (FlattenCalled /\ out.result.error = NoError) =>
          \A row \in UnpricedRows(out.product_id, out.include_dnp) :
             \E n \in DOMAIN out.result.flattened :
                /\ out.result.flattened[n].mfg_part_number = row.mfg_part_number
                /\ out.result.flattened[n].manufacturer = row.manufacturer
                /\ IsNull(out.result.flattened[n].unit_cost)

-----------------------------------------------------------------------------
\* C13: a call of calculate_bom_cost or get_flattened_bom whose root is not a
\* row of products, or whose root has an edge to a product that is not one,
\* fails instead of returning a result.
C13_ProductNotFound ==
    (CostCalled \/ FlattenCalled) =>
        LET dangling == {i \in DOMAIN sub_assemblies :
                            /\ sub_assemblies[i].parent_product_id = out.product_id
                            /\ sub_assemblies[i].child_product_id \notin DOMAIN products}
        IN (out.product_id \notin DOMAIN products \/ dangling # {}) =>
              out.result.error # NoError

\* C14: a call of calculate_bom_cost or get_flattened_bom on a product that
\* exists, with a multiplier that is not positive, fails instead of returning
\* a total, a breakdown or a flattened list.
C14_InvalidQuantity ==
    /\ (CostCalled \/ FlattenCalled)
    /\ out.product_id \in DOMAIN products
    /\ out.quantity <= 0
    => out.result.error # NoError

-----------------------------------------------------------------------------
ReadCalls == {"get_product_bom", "calculate_bom_cost", "get_flattened_bom"}

\* C15: a call of get_product_bom, calculate_bom_cost or get_flattened_bom
\* leaves the five tables as they were, and get_product_bom returns, with two
\* empty sequences, for a product that has no entry and no edge.
C15_ReadOnly ==
    [][out'.op \in ReadCalls =>
          /\ tables' = tables
          /\ (/\ out'.op = "get_product_bom"
              /\ \A i \in DOMAIN bom_entries :
                    bom_entries[i].product_id # out'.product_id
              /\ \A i \in DOMAIN sub_assemblies :
                    sub_assemblies[i].parent_product_id # out'.product_id)
             => out'.result = [components |-> <<>>, sub_assemblies |-> <<>>]]_vars

\* get_product_bom has returned two empty sequences for a product that
\* exists, in a database that holds entries and edges of other products.
C15_Witness ==
    /\ out.op = "get_product_bom"
    /\ out.product_id \in DOMAIN products
    /\ out.result = [components |-> <<>>, sub_assemblies |-> <<>>]
    /\ bom_entries # <<>>
    /\ sub_assemblies # <<>>

-----------------------------------------------------------------------------
\* No two rows of component_sources have the same component and distributor.
NoDuplicateSources(sources) ==
    \A i, j \in DOMAIN sources :
        (/\ sources[i].component_id = sources[j].component_id
         /\ sources[i].distributor = sources[j].distributor) => i = j

\* C16: from a store with no duplicate sources, a call of
\* add_component_source for a pair that has a source replaces the part number
\* and the cost of that source, returns its id and leaves the number of
\* sources as it was; a call for a new pair adds exactly one source; the other
\* sources are unchanged, and the store still has no duplicate sources.
C16_OneSourcePerPair ==
    [][\A src \in FreshInputs.sources :
          (/\ NoDuplicateSources(component_sources)
           /\ add_component_source(src.component_id, src.distributor,
                                   src.distributor_part_number, src.unit_cost))
          => LET same == {i \in DOMAIN component_sources :
                            /\ component_sources[i].component_id = src.component_id
                            /\ component_sources[i].distributor = src.distributor}
                 id   == Get(out'.result)
             IN /\ NoDuplicateSources(component_sources')
                /\ component_sources'[id] = src
                /\ \A j \in DOMAIN component_sources :
                      j # id => component_sources'[j] = component_sources[j]
                /\ IF same # {}
                   THEN /\ id \in same
                        /\ Len(component_sources') = Len(component_sources)
                   ELSE /\ id = Len(component_sources) + 1
                        /\ Len(component_sources') = Len(component_sources) + 1
      ]_vars

\* The first of two sources has just been updated in place.
C16_Witness ==
    /\ out.op = "add_component_source"
    /\ Len(component_sources) = 2
    /\ out.result = Val(1)
    /\ NoDuplicateSources(component_sources)

-----------------------------------------------------------------------------
\* C17: bom_entries has at most one row per (product, component) pair,
\* whatever sequence of add_to_bom and add_bom_entry calls has been made.
C17_OneBomEntryPerPair ==
    \A i, j \in DOMAIN bom_entries :
        (/\ bom_entries[i].product_id = bom_entries[j].product_id
         /\ bom_entries[i].component_id = bom_entries[j].component_id) => i = j

\* C18: sub_assemblies has at most one row per (parent, child) pair, whatever
\* sequence of add_subassembly_to_bom and add_sub_assembly calls has been
\* made.
C18_OneEdgePerPair ==
    \A i, j \in DOMAIN sub_assemblies :
        (/\ sub_assemblies[i].parent_product_id = sub_assemblies[j].parent_product_id
         /\ sub_assemblies[i].child_product_id = sub_assemblies[j].child_product_id)
        => i = j

\* The products reached from a product by at most n rows of sub_assemblies,
\* one row at least.
RECURSIVE Descendants(_, _)
Descendants(product_id, n) ==
    IF n = 0 THEN {}
    ELSE LET children == {sub_assemblies[e].child_product_id :
                             e \in {i \in DOMAIN sub_assemblies :
                                      sub_assemblies[i].parent_product_id = product_id}}
         IN children \cup UNION {Descendants(c, n - 1) : c \in children}

\* C19: no product is its own ancestor in sub_assemblies, whatever sequence of
\* add_subassembly_to_bom and add_sub_assembly calls has been made.
C19_Acyclic ==
    \A p \in DOMAIN products : p \notin Descendants(p, Len(sub_assemblies))

-----------------------------------------------------------------------------
\* The sources of a component that no source of it with a unit cost
\* undercuts; a source with no unit cost is one only when none has a cost.
LowestCostSources(component_id) ==
    LET S      == SourcesOf(component_id)
        costed == {i \in S : ~IsNull(component_sources[i].unit_cost)}
    IN IF costed = {} THEN S
       ELSE {i \in costed :
               \A j \in costed : BLeq(Get(component_sources[i].unit_cost),
                                      Get(component_sources[j].unit_cost))}

\* C20: in every row that get_product_bom returns for a component, the
\* best-source fields are those of one source of the component, one with the
\* lowest unit cost among its sources, and they are all empty exactly when
\* the component has no source.
C20_BestSource ==
    out.op = "get_product_bom" =>
        \A n \in DOMAIN out.result.components :
            LET row == out.result.components[n]
            IN IF SourcesOf(row.component_id) = {}
               THEN /\ IsNull(row.distributor)
                    /\ IsNull(row.distributor_part_number)
                    /\ IsNull(row.unit_cost)
               ELSE \E i \in LowestCostSources(row.component_id) :
                       /\ row.distributor = Val(component_sources[i].distributor)
                       /\ row.distributor_part_number =
                             Val(component_sources[i].distributor_part_number)
                       /\ row.unit_cost = component_sources[i].unit_cost

-----------------------------------------------------------------------------
\* The root-to-component paths that count under the flag of the call: every
\* path when include_dnp is set, else those whose entry is not marked
\* do-not-populate, at whatever depth the entry lies.
CountedLines(root, include_dnp) ==
    {l \in Lines(root, TRUE) :
        include_dnp \/ ~bom_entries[l[2]].do_not_populate}

\* C21: the include_dnp flag of the call applies at every depth.  The cost
\* total, the component lines of the breakdown and the quantities of the
\* flattened list are made of the counted paths and of no other: without the
\* flag no do-not-populate entry of the root or of a descendant contributes,
\* with it every such entry contributes like any other.
C21_DnpAtEveryDepth ==
    /\ (CostCalled /\ ~CycleFrom(out.product_id)) =>
          LET counted == CountedLines(out.product_id, out.include_dnp)
          IN /\ out.result.total =
                   Sum([l \in counted |->
                          BMul(BMul(EntryCost(l[2]), PathProduct(l[1])),
                               Float(out.quantity))])
             /\ Len(out.result.component_costs) =
                   Cardinality({l \in counted : l[1] = <<>> /\ PricedEntry(l[2])})
                   + Cardinality(EdgesOut(out.product_id))
    /\ (FlattenCalled /\ ~CycleFrom(out.product_id)) =>
          LET counted == CountedLines(out.product_id, out.include_dnp)
              flattened == out.result.flattened
          IN /\ {FlattenKey(flattened[n].mfg_part_number, flattened[n].manufacturer) :
                    n \in DOMAIN flattened}
                = {FlattenKey(PairOf(l[2])[1], PairOf(l[2])[2]) : l \in counted}
             /\ \A n \in DOMAIN flattened :
                   flattened[n].quantity =
                      Sum([l \in {c \in counted :
                                    FlattenKey(PairOf(c[2])[1], PairOf(c[2])[2])
                                    = FlattenKey(flattened[n].mfg_part_number,
                                                 flattened[n].manufacturer)} |->
                             PathQuantity(l, out.quantity)])

\* A call without the flag on a product whose sub-assembly has a priced
\* do-not-populate entry, next to entries that count.
C21_Witness ==
    /\ CostCalled /\ ~CycleFrom(out.product_id)
    /\ ~out.include_dnp
    /\ out.result.total # {}
    /\ \E l \in Lines(out.product_id, TRUE) :
          /\ l[1] # <<>>
          /\ bom_entries[l[2]].do_not_populate
          /\ EntryCost(l[2]) # {}
          /\ PathProduct(l[1]) # {}

-----------------------------------------------------------------------------
\* C22: resolver calls that run at the same time on one BOMDatabase, over
\* tables nothing writes to, each return what the same call returns when it
\* runs alone.
C22_ConcurrentCalls ==
    \A t \in Threads :
        (/\ calls[t].pc = "returned"
         /\ \E u \in Threads \ {t} : calls[u].pc # "idle") =>
            calls[t].result =
               IF calls[t].op = "calculate_bom_cost"
               THEN calculate_bom_cost(calls[t].product_id, calls[t].quantity,
                                       calls[t].include_dnp)
               ELSE get_flattened_bom(calls[t].product_id, calls[t].quantity,
                                      calls[t].include_dnp)

-----------------------------------------------------------------------------
-----------------------------------------------------------------------------
\* The component rows in the order the traversal meets them: the rows of the
\* product in accessor order, then those of each of its sub-assemblies, depth
\* first in accessor order, down to n levels.
RECURSIVE Encounters(_, _, _)
RECURSIVE EncountersBelow(_, _, _, _)
EncountersBelow(subs, i, include_dnp, n) ==
    IF i > Len(subs) THEN <<>>
    ELSE Encounters(subs[i].product_id, include_dnp, n)
            \o EncountersBelow(subs, i + 1, include_dnp, n)

Encounters(product_id, include_dnp, n) ==
    ComponentRows(product_id, include_dnp)
       \o (IF n = 0 THEN <<>>
           ELSE EncountersBelow(SubAssemblyRows(product_id), 1, include_dnp, n - 1))

\* C24: every field but the quantity of an entry of the flattened list is the
\* field of the first row the traversal meets under the key of the entry;
\* the rows met later under that key leave those fields as they are.
C24_FirstEncounter ==
    (FlattenCalled /\ ~CycleFrom(out.product_id)) =>
        LET met == Encounters(out.product_id, out.include_dnp, Len(sub_assemblies))
        IN \A n \in DOMAIN out.result.flattened :
              LET e     == out.result.flattened[n]
                  mine  == {k \in DOMAIN met :
                              FlattenKey(met[k].mfg_part_number, met[k].manufacturer)
                              = FlattenKey(e.mfg_part_number, e.manufacturer)}
              IN /\ mine # {}
                 /\ LET first == met[CHOOSE k \in mine : \A j \in mine : k <= j]
                    IN /\ e.mfg_part_number = first.mfg_part_number
                       /\ e.manufacturer = first.manufacturer
                       /\ e.description = first.description
                       /\ e.distributor = first.distributor
                       /\ e.distributor_part_number = first.distributor_part_number
                       /\ e.unit_cost = first.unit_cost
                       /\ e.do_not_populate = first.do_not_populate

\* An entry of the flattened list whose flag is that of the first row met,
\* while a row met later under the same key has the other flag.
C24_Witness ==
    /\ FlattenCalled /\ ~CycleFrom(out.product_id)
    /\ LET met == Encounters(out.product_id, out.include_dnp, Len(sub_assemblies))
       IN \E n \in DOMAIN out.result.flattened, j, k \in DOMAIN met :
             /\ j < k
             /\ met[j].component_id = met[k].component_id
             /\ met[j].do_not_populate # met[k].do_not_populate
             /\ out.result.flattened[n].mfg_part_number = met[j].mfg_part_number
             /\ out.result.flattened[n].do_not_populate = met[j].do_not_populate
             /\ \A i \in DOMAIN met :
                   met[i].component_id = met[j].component_id => j <= i

-----------------------------------------------------------------------------
-----------------------------------------------------------------------------
\* The rows a table of sources holds for a pair.
RowsOfPair(sources, pair) ==
    {i \in DOMAIN sources : /\ sources[i] # DeletedSource
                            /\ sources[i].component_id = pair[1]
                            /\ sources[i].distributor = pair[2]}

PairsIn(sources) ==
    {<<sources[i].component_id, sources[i].distributor>> :
        i \in {j \in DOMAIN sources : sources[j] # DeletedSource}}

\* last_updated of row i is not more recent than that of row j.
NotMoreRecent(sources, i, j) ==
    \/ IsNull(sources[i].last_updated)
    \/ /\ ~IsNull(sources[j].last_updated)
       /\ ~TextLess(Get(sources[j].last_updated), Get(sources[i].last_updated))

\* C26: a call of cleanup_duplicate_sources leaves one source per (component,
\* distributor) pair; for a pair that had several it is one of them, unchanged,
\* and none of the others was updated more recently; a source that was alone
\* for its pair is unchanged; the call returns the number of sources it
\* removed and leaves the other tables alone; and on a store with no
\* duplicate, as the call leaves it, the call removes nothing and returns 0.
C26_Cleanup ==
    [][out'.op = "cleanup_duplicate_sources" =>
          LET before == component_sources
              after  == component_sources'
          IN /\ PairsIn(after) = PairsIn(before)
             /\ \A pair \in PairsIn(before) :
                   \E i \in RowsOfPair(before, pair) :
                      /\ RowsOfPair(after, pair) = {i}
                      /\ after[i] = before[i]
                      /\ \A j \in RowsOfPair(before, pair) :
                            NotMoreRecent(before, j, i)
             /\ out'.result =
                   Val(Cardinality(UNION {RowsOfPair(before, pair) :
                                             pair \in PairsIn(before)})
                       - Cardinality(PairsIn(before)))
             /\ (\A pair \in PairsIn(before) :
                    Cardinality(RowsOfPair(before, pair)) = 1)
                => (after = before /\ out'.result = Val(0))
             /\ UNCHANGED <<products, components, bom_entries, sub_assemblies>>
      ]_vars

\* The call has removed one source and left two pairs with one source each;
\* the source it removed was the first row of the table.
C26_Witness ==
    /\ out.op = "cleanup_duplicate_sources"
    /\ out.result = Val(1)
    /\ Cardinality(PairsIn(component_sources)) = 2
    /\ component_sources[1] = DeletedSource

-----------------------------------------------------------------------------
\* The bill-of-materials rows a table holds, by id.
LiveEntries(entries) == {i \in DOMAIN entries : entries[i] # DeletedEntry}

LiveEdges(edges) == {i \in DOMAIN edges : edges[i] # DeletedEdge}

\* C27: delete_entire_bom(p) removes the bom_entries rows of product p and the
\* sub_assemblies rows whose parent is p, and no other row; it returns how
\* many rows the two tables lost; the rows of other products, the edges in
\* which p is the child, and products, components and component_sources are
\* as they were.
C27_DeleteEntireBom ==
    [][\A p \in DOMAIN products :
          delete_entire_bom(p) =>
             /\ LiveEntries(bom_entries') =
                   {i \in LiveEntries(bom_entries) : bom_entries[i].product_id # p}
             /\ LiveEdges(sub_assemblies') =
                   {i \in LiveEdges(sub_assemblies) :
                       sub_assemblies[i].parent_product_id # p}
             /\ \A i \in LiveEntries(bom_entries') : bom_entries'[i] = bom_entries[i]
             /\ \A i \in LiveEdges(sub_assemblies') :
                   sub_assemblies'[i] = sub_assemblies[i]
             /\ \A i \in LiveEdges(sub_assemblies) :
                   (/\ sub_assemblies[i].child_product_id = p
                    /\ sub_assemblies[i].parent_product_id # p)
                   => sub_assemblies'[i] = sub_assemblies[i]
             /\ out'.result =
                   Val((Cardinality(LiveEntries(bom_entries))
                          - Cardinality(LiveEntries(bom_entries')))
                       + (Cardinality(LiveEdges(sub_assemblies))
                          - Cardinality(LiveEdges(sub_assemblies'))))
             /\ UNCHANGED <<products, components, component_sources>>
      ]_vars

\* The bill of materials of P3 (id 2) has been deleted: one entry and the edge
\* to its own child are gone, the entry of P1 and the edge from P1 to P3 are
\* still there.
C27_Witness ==
    /\ out.op = "delete_entire_bom"
    /\ out.result = Val(2)
    /\ Len(bom_entries) = 2
    /\ Len(sub_assemblies) = 2
    /\ \E i \in LiveEntries(bom_entries) : bom_entries[i].product_id = 1
    /\ \E i \in LiveEdges(sub_assemblies) :
          /\ sub_assemblies[i] = Edge(1, 2, 2)
          /\ \E j \in DOMAIN sub_assemblies : sub_assemblies[j] = DeletedEdge

-----------------------------------------------------------------------------
\* The quantity the activation at the end of the first n edges of a chain is
\* called with, when the call at the root has quantity M.
RECURSIVE FrameQuantity(_, _, _)
FrameQuantity(p, n, M) ==
    IF n = 0 THEN M
    ELSE ChildQuantity(sub_assemblies[p[n]].quantity, FrameQuantity(p, n - 1, M))

\* C28: when a call of calculate_bom_cost returns, the total it returns is the
\* sum of the 'total' fields of the lines of the breakdown it returns, and so
\* it is for the recursive call at the end of every chain of sub-assembly
\* rows below the root.
C28_TotalIsSumOfLines ==
    (CostCalled /\ out.result.error = NoError) =>
        /\ out.result.total =
              RunningTotal(out.result.component_costs,
                           Len(out.result.component_costs))
        /\ \A p \in Paths(out.product_id) :
              Len(p) < MaxDepth =>
                 LET frame == CostFrame(PathEnd(out.product_id, p),
                                        FrameQuantity(p, Len(p), Float(out.quantity)),
                                        out.include_dnp, Len(p) + 1)
                 IN /\ frame.error = NoError
                    /\ frame.total =
                          RunningTotal(frame.component_costs,
                                       Len(frame.component_costs))

\* A call has returned a breakdown of a component line and a rollup line, and
\* two edges below the root an activation returned a total that is not 0.
C28_Witness ==
    /\ CostCalled /\ out.result.error = NoError
    /\ Len(out.result.component_costs) = 2
    /\ out.result.component_costs[1].total # {}
    /\ out.result.component_costs[2].total # {}
    /\ \E p \in Paths(out.product_id) :
          /\ Len(p) = 2
          /\ CostFrame(PathEnd(out.product_id, p),
                       FrameQuantity(p, Len(p), Float(out.quantity)),
                       out.include_dnp, 3).total # {}

-----------------------------------------------------------------------------
\* The rows of the accessor whose component has a source.
SourcedRows(product_id, include_dnp) ==
    SelectSeq(ComponentRows(product_id, include_dnp),
              LAMBDA comp : SourcesOf(comp.component_id) # {})

\* C29: the breakdown of calculate_bom_cost has a line for a direct component
\* exactly when the component has a best source, a source with unit cost 0
\* included: its line has total 0; and get_flattened_bom lists the same
\* components.
C29_ZeroCostIsPriced ==
    /\ (CostCalled /\ out.result.error = NoError) =>
          LET comps == SourcedRows(out.product_id, out.include_dnp)
              subs  == SubAssemblyRows(out.product_id)
              lines == out.result.component_costs
          IN /\ Len(lines) = Len(comps) + Len(subs)
             /\ \A n \in DOMAIN comps :
                   /\ n \in DOMAIN lines
                   /\ lines[n].item = ComponentLabel(comps[n])
                   /\ ~IsNull(comps[n].unit_cost) =>
                         /\ lines[n].unit_cost = Get(comps[n].unit_cost)
                         /\ Get(comps[n].unit_cost) = {} => lines[n].total = {}
    /\ (FlattenCalled /\ out.result.error = NoError) =>
          \A n \in DOMAIN SourcedRows(out.product_id, out.include_dnp) :
             LET comp == SourcedRows(out.product_id, out.include_dnp)[n]
             IN \E k \in DOMAIN out.result.flattened :
                   /\ out.result.flattened[k].mfg_part_number = comp.mfg_part_number
                   /\ out.result.flattened[k].manufacturer = comp.manufacturer

-----------------------------------------------------------------------------
\* Every entry of the flattened list small is in the list large, under the
\* same manufacturer part number and manufacturer, with at least its quantity.
FlattenedWithin(small, large) ==
    \A n \in DOMAIN small :
       \E k \in DOMAIN large :
          /\ large[k].mfg_part_number = small[n].mfg_part_number
          /\ large[k].manufacturer = small[n].manufacturer
          /\ BLeq(small[n].quantity, large[k].quantity)

\* C30: on a graph with no cycle below the root and for a multiplier above 0,
\* the cost total without the do-not-populate entries is at most the total
\* with them, and every entry of the flattened list without them is in the
\* list with them, with a quantity that is not smaller.
C30_DnpMonotone ==
    /\ (CostCalled /\ ~CycleFrom(out.product_id) /\ out.quantity > 0) =>
          LET other == calculate_bom_cost(out.product_id, out.quantity,
                                          ~out.include_dnp)
          IN /\ out.result.error = NoError
             /\ other.error = NoError
             /\ IF out.include_dnp
                THEN BLeq(other.total, out.result.total)
                ELSE BLeq(out.result.total, other.total)
    /\ (FlattenCalled /\ ~CycleFrom(out.product_id) /\ out.quantity > 0) =>
          LET other == get_flattened_bom(out.product_id, out.quantity,
                                         ~out.include_dnp)
          IN /\ out.result.error = NoError
             /\ other.error = NoError
             /\ IF out.include_dnp
                THEN FlattenedWithin(other.flattened, out.result.flattened)
                ELSE FlattenedWithin(out.result.flattened, other.flattened)

\* A flattened list without the do-not-populate entries whose one component
\* has a larger quantity in the list with them, and costs something.
C30_Witness ==
    /\ FlattenCalled /\ ~CycleFrom(out.product_id) /\ out.quantity > 0
    /\ ~out.include_dnp
    /\ out.result.error = NoError
    /\ LET with == get_flattened_bom(out.product_id, out.quantity, TRUE).flattened
       IN \E n \in DOMAIN out.result.flattened, k \in DOMAIN with :
             /\ with[k].mfg_part_number = out.result.flattened[n].mfg_part_number
             /\ with[k].manufacturer = out.result.flattened[n].manufacturer
             /\ with[k].quantity # out.result.flattened[n].quantity
             /\ Priced(with[k].unit_cost)
    /\ calculate_bom_cost(out.product_id, out.quantity, FALSE).total
          # calculate_bom_cost(out.product_id, out.quantity, TRUE).total

====
